---- MODULE Spec2Model ----
(***************************************************************************)
(* A model of rom-tools' identification pipeline and CHD reader.           *)
(*                                                                         *)
(*   SpecIdentify  lib/identify/rom.go: Identify, identifyFile,            *)
(*                 identifyFolder, identifyZIP, identifyReader and         *)
(*                 identifyGame, one action per statement block            *)
(*   SpecHeader    CHD NewReader / parseHeader applied to bounded headers  *)
(*   SpecHunk      CHD Reader.readHunk over bounded hunk maps              *)
(*                                                                         *)
(* Strings the code builds or inspects (file names, hex digests) are       *)
(* tuples of one-character strings, bytes are naturals below 256.          *)
(***************************************************************************)
EXTENDS Integers, Sequences, FiniteSets, TLC

VARIABLES
    \* ---- Identify (lib/identify/rom.go) ----
    pc,        \* position of the Identify call
    opts,      \* Options{HashMode}
    path,      \* what the path names on disk
    open,      \* handles that are open now (files, archive, folder, entry readers)
    deferred,  \* handles with a pending `defer Close()`
    entries,   \* c.Entries() / archive.Entries()
    idx,       \* 1-based index of the loop over entries
    items,     \* the items slice under construction
    rdr,       \* the reader identifyReader works on: [h, name, size]
    ci,        \* 1-based index of identifyGame's loop over candidates
    tried,     \* history: candidates identifyGame tried on this reader, with outcome
    format,    \* identifyGame's first result
    game,      \* identifyGame's second result
    hdr,       \* the CHD header bytes identifyReader found in the reader
    itemRes,   \* identifyReader's result: [ok, item]
    log,       \* history of open / detect / hash / close events
    result,    \* what Identify returned: [ok, items]
    \* ---- CHD NewReader / parseHeader ----
    hpc,       \* "input" before the call, "done" after
    hfile,     \* [size, readOk, bytes]: the io.ReaderAt handed to NewReader
    hres,      \* NewReader's result
    \* ---- CHD Reader.readHunk ----
    hunkMap,   \* r.hunkMap.entries
    hunkCache, \* r.hunkCache
    rhHunk,    \* hunkNum of the last readHunk call
    rhRes,     \* its result: [ok, visited]
    \* ---- decodeMap ----
    mpc,       \* "input", then "decoded" (decodeMap) or "opened" (NewReader)
    mfile,     \* the file: header, map header CRC, what the map data decodes to
    mres,      \* what the call returned
    \* ---- CHD Reader.ReadAt (on hunkMap and hunkCache) ----
    rdHeader,  \* r.header: LogicalBytes, HunkBytes
    raCall,    \* the last ReadAt call: len(p), off, the hunks that cannot be read
    raRes,     \* what it returned: n, err, the bytes copied into p
    \* ---- ZIPEntryReader ----
    zfile,     \* z.file: UncompressedSize64
    zbuf,      \* z.buffer; a byte is named by its place in the entry's data
    zrdr,      \* z.reader: the place its stream has reached, -1 for nil
    zerr,      \* z.err is set
    zpos,      \* z.pos
    zopens,    \* how often z.file.Open() succeeded
    zlast,     \* the last call and what it returned
    \* ---- SectorReader ----
    srd,       \* the SectorReader: physicalSector, dataOffset, size
    sphys,     \* size of the underlying file
    scall,     \* the last ReadAt call: len(p), off, the sector that cannot be read
    sres,      \* what it returned: n, err, the physical places of the bytes in p
    \* ---- ISO 9660 Reader.OpenFile ----
    iso,       \* the image: rootExtentLoc, rootExtentLen, the directories by extent
    ocall,     \* the last OpenFile call: path, the extents that cannot be read
    ores,      \* what it returned: ok, and the section's offset and size
    \* ---- IdentifyFromSystemCNF ----
    cnfData,   \* the lines of SYSTEM.CNF, each with its text
    cnfRes,    \* what IdentifyFromSystemCNF returned
    \* ---- ParseN64 ----
    n64Native, \* the header in native big-endian order
    n64File,   \* the file: the byte order it is stored in, its bytes, readOk
    n64Res,    \* what ParseN64 returned
    \* ---- Region ----
    regCall,   \* the last call on a Region: op, r, other
    regRes,    \* what it returned
    \* ---- ParseNES ----
    nesFile,   \* the file: its bytes, readOk
    nesRes,    \* what ParseNES returned
    \* ---- goroutines in Reader.readHunk ----
    ccache,    \* r.hunkCache: hunk number -> buffer
    cbufs,     \* the buffers: whose bytes they hold, whether they are filled
    cmu,       \* r.cacheMu: the goroutines holding it for reading, the writer
    cthr,      \* each goroutine: its stack of readHunk calls, what it got
    cdec,      \* the goroutines inside zstdDecoder.DecodeAll
    \* ---- decodeMapEntries ----
    dmIn,      \* the compressed map: its symbols and fields, the header, firstOffset
    dmRes,     \* what decodeMapEntries returned
    \* ---- parseTrackMetadata ----
    tmArea,    \* the metadata entries of the file, by offset
    tmMeta,    \* the metadata offset of the header
    tmPc,      \* where parseTrackMetadata is: "start", "loop" or "done"
    tmOffset,  \* offset
    tmTracks,  \* tracks
    tmVisited, \* the offsets of the entries that gave the tracks
    tmTick,    \* the parity of the number of loop iterations made
    tmRes,     \* what parseTrackMetadata returned
    \* ---- trackReader.ReadAt ----
    trChd,     \* the CHD: unit size, logical size, the unreadable unit
    trTrack,   \* the track: its first unit (start frame + pregap) and numSectors
    trOff,     \* off
    trLen,     \* len(p)
    trN,       \* n
    trTick,    \* the parity of the number of loop iterations made
    trRes,     \* what ReadAt returned
    \* ---- readHunk over the codecs ----
    cdHeader,  \* HunkBytes and Compressors of the header
    cdMap,     \* the hunk map, with the compressed data of each hunk
    cdCache,   \* the hunk cache: the lengths of the buffers by hunk
    cdRes      \* what the last readHunk call returned

idVars == <<pc, opts, path, open, deferred, entries, idx, items, rdr, ci, tried,
            format, game, hdr, itemRes, log, result>>
hdrVars == <<hpc, hfile, hres>>
hunkVars == <<hunkMap, hunkCache, rhHunk, rhRes>>
mapVars == <<mpc, mfile, mres>>
readAtVars == <<rdHeader, raCall, raRes>>
zipVars == <<zfile, zbuf, zrdr, zerr, zpos, zopens, zlast>>
sectorVars == <<srd, sphys, scall, sres>>
isoVars == <<iso, ocall, ores>>
cnfVars == <<cnfData, cnfRes>>
n64Vars == <<n64Native, n64File, n64Res>>
regVars == <<regCall, regRes>>
nesVars == <<nesFile, nesRes>>
concVars == <<ccache, cbufs, cmu, cthr, cdec>>
entriesVars == <<dmIn, dmRes>>
tracksVars == <<tmArea, tmMeta, tmPc, tmOffset, tmTracks, tmVisited, tmTick, tmRes>>
trackReadVars == <<trChd, trTrack, trOff, trLen, trN, trTick, trRes>>
codecVars == <<cdHeader, cdMap, cdCache, cdRes>>
vars ==
    <<idVars, hdrVars, hunkVars, mapVars, readAtVars, zipVars, sectorVars, isoVars,
      cnfVars, n64Vars, regVars, nesVars, concVars, entriesVars, tracksVars,
      trackReadVars, codecVars>>

\* what the actions of one component leave alone
notIdVars ==
    <<hdrVars, hunkVars, mapVars, readAtVars, zipVars, sectorVars, isoVars, cnfVars,
      n64Vars, regVars, nesVars, concVars, entriesVars, tracksVars, trackReadVars,
      codecVars>>
notHdrVars ==
    <<idVars, hunkVars, mapVars, readAtVars, zipVars, sectorVars, isoVars, cnfVars,
      n64Vars, regVars, nesVars, concVars, entriesVars, tracksVars, trackReadVars,
      codecVars>>
notHunkVars ==
    <<idVars, hdrVars, mapVars, readAtVars, zipVars, sectorVars, isoVars, cnfVars,
      n64Vars, regVars, nesVars, concVars, entriesVars, tracksVars, trackReadVars,
      codecVars>>
notMapVars ==
    <<idVars, hdrVars, hunkVars, readAtVars, zipVars, sectorVars, isoVars, cnfVars,
      n64Vars, regVars, nesVars, concVars, entriesVars, tracksVars, trackReadVars,
      codecVars>>
notReadAtVars ==
    <<idVars, hdrVars, mapVars, zipVars, sectorVars, isoVars, cnfVars, n64Vars,
      regVars, nesVars, concVars, entriesVars, tracksVars, trackReadVars, codecVars>>
notZipVars ==
    <<idVars, hdrVars, hunkVars, mapVars, readAtVars, sectorVars, isoVars, cnfVars,
      n64Vars, regVars, nesVars, concVars, entriesVars, tracksVars, trackReadVars,
      codecVars>>
notSectorVars ==
    <<idVars, hdrVars, hunkVars, mapVars, readAtVars, zipVars, isoVars, cnfVars,
      n64Vars, regVars, nesVars, concVars, entriesVars, tracksVars, trackReadVars,
      codecVars>>
notIsoVars ==
    <<idVars, hdrVars, hunkVars, mapVars, readAtVars, zipVars, sectorVars, cnfVars,
      n64Vars, regVars, nesVars, concVars, entriesVars, tracksVars, trackReadVars,
      codecVars>>
notCnfVars ==
    <<idVars, hdrVars, hunkVars, mapVars, readAtVars, zipVars, sectorVars, isoVars,
      n64Vars, regVars, nesVars, concVars, entriesVars, tracksVars, trackReadVars,
      codecVars>>
notN64Vars ==
    <<idVars, hdrVars, hunkVars, mapVars, readAtVars, zipVars, sectorVars, isoVars,
      cnfVars, regVars, nesVars, concVars, entriesVars, tracksVars, trackReadVars,
      codecVars>>
notRegVars ==
    <<idVars, hdrVars, hunkVars, mapVars, readAtVars, zipVars, sectorVars, isoVars,
      cnfVars, n64Vars, nesVars, concVars, entriesVars, tracksVars, trackReadVars,
      codecVars>>
notNesVars ==
    <<idVars, hdrVars, hunkVars, mapVars, readAtVars, zipVars, sectorVars, isoVars,
      cnfVars, n64Vars, regVars, concVars, entriesVars, tracksVars, trackReadVars,
      codecVars>>
notConcVars ==
    <<idVars, hdrVars, hunkVars, mapVars, readAtVars, zipVars, sectorVars, isoVars,
      cnfVars, n64Vars, regVars, nesVars, entriesVars, tracksVars, trackReadVars,
      codecVars>>
notEntriesVars ==
    <<idVars, hdrVars, hunkVars, mapVars, readAtVars, zipVars, sectorVars, isoVars,
      cnfVars, n64Vars, regVars, nesVars, concVars, tracksVars, trackReadVars,
      codecVars>>
notTracksVars ==
    <<idVars, hdrVars, hunkVars, mapVars, readAtVars, zipVars, sectorVars, isoVars,
      cnfVars, n64Vars, regVars, nesVars, concVars, entriesVars, trackReadVars,
      codecVars>>
notTrackReadVars ==
    <<idVars, hdrVars, hunkVars, mapVars, readAtVars, zipVars, sectorVars, isoVars,
      cnfVars, n64Vars, regVars, nesVars, concVars, entriesVars, tracksVars,
      codecVars>>
notCodecVars ==
    <<idVars, hdrVars, hunkVars, mapVars, readAtVars, zipVars, sectorVars, isoVars,
      cnfVars, n64Vars, regVars, nesVars, concVars, entriesVars, tracksVars,
      trackReadVars>>

\* absent values: of a record, of a format
None == [none |-> TRUE]
NoFormat == "none"

-----------------------------------------------------------------------------
(* Bounds *)

\* most entries (files and directories) in a folder or archive
MaxEntries == 2
\* width in bits standing for the 64-bit LogicalBytes field
LogicalBits == 5
\* width in bits standing for the 32-bit HunkBytes / TotalHunks fields
HunkBits == 3
\* most hunks in a hunk map
MaxHunks == 3
\* greatest position a Seek on a ZIP entry reader is followed to
MaxPos == 5
\* most whole sectors in a disc image
MaxSectors == 2
\* most lines of a SYSTEM.CNF
MaxLines == 3
\* most goroutines reading one CHD Reader at a time
MaxThreads == 2
\* most Huffman symbols in a compressed map with runs
MaxSymbols == 5
\* most entries in a metadata area
MaxMeta == 2
\* most frames in a track and most units of logical data
MaxFrames == 2

-----------------------------------------------------------------------------
(* Strings and hex *)

RECURSIVE Pow2(_)
Pow2(n) == IF n = 0 THEN 1 ELSE 2 * Pow2(n - 1)

Min(a, b) == IF a < b THEN a ELSE b

S(str) ==
    CASE str = ".chd" -> <<".", "c", "h", "d">>
      [] str = ".zip" -> <<".", "z", "i", "p">>
      [] str = ".iso" -> <<".", "i", "s", "o">>
      [] str = ".xiso" -> <<".", "x", "i", "s", "o">>
      [] str = ".xbe" -> <<".", "x", "b", "e">>
      [] str = ".gba" -> <<".", "g", "b", "a">>
      [] str = ".z64" -> <<".", "z", "6", "4">>
      [] str = ".v64" -> <<".", "v", "6", "4">>
      [] str = ".n64" -> <<".", "n", "6", "4">>
      [] str = ".gb" -> <<".", "g", "b">>
      [] str = ".gbc" -> <<".", "g", "b", "c">>
      [] str = ".md" -> <<".", "m", "d">>
      [] str = ".gen" -> <<".", "g", "e", "n">>
      [] str = ".smd" -> <<".", "s", "m", "d">>
      [] str = ".nds" -> <<".", "n", "d", "s">>
      [] str = ".dsi" -> <<".", "d", "s", "i">>
      [] str = ".ids" -> <<".", "i", "d", "s">>
      [] str = ".nes" -> <<".", "n", "e", "s">>
      [] str = ".sfc" -> <<".", "s", "f", "c">>
      [] str = ".smc" -> <<".", "s", "m", "c">>

Upper == <<"A", "B", "C", "D", "E", "G", "H", "I", "O", "S">>
Lower == <<"a", "b", "c", "d", "e", "g", "h", "i", "o", "s">>

\* strings.ToLower, on the letters the model's names use
ToLowerChar(c) ==
    IF \E i \in 1..Len(Upper) : Upper[i] = c
    THEN Lower[CHOOSE i \in 1..Len(Upper) : Upper[i] = c]
    ELSE c

ToLower(s) == [i \in 1..Len(s) |-> ToLowerChar(s[i])]

\* filepath.Ext: the suffix from the last "." of the last path element
RECURSIVE ExtFrom(_, _)
ExtFrom(s, i) ==
    IF i < 1 \/ s[i] = "/" THEN <<>>
    ELSE IF s[i] = "." THEN SubSeq(s, i, Len(s))
    ELSE ExtFrom(s, i - 1)

Ext(s) == ExtFrom(s, Len(s))

\* filepath.Base, for names without a trailing separator
RECURSIVE BaseFrom(_, _)
BaseFrom(s, i) ==
    IF i < 1 THEN s
    ELSE IF s[i] = "/" THEN SubSeq(s, i + 1, Len(s))
    ELSE BaseFrom(s, i - 1)

Base(s) == BaseFrom(s, Len(s))

HexDigits == <<"0", "1", "2", "3", "4", "5", "6", "7",
               "8", "9", "a", "b", "c", "d", "e", "f">>

HexDigit(n) == HexDigits[n + 1]

\* hex.EncodeToString
RECURSIVE EncodeToString(_)
EncodeToString(bytes) ==
    IF bytes = <<>> THEN <<>>
    ELSE <<HexDigit(Head(bytes) \div 16), HexDigit(Head(bytes) % 16)>>
         \o EncodeToString(Tail(bytes))

\* the digits of %x
RECURSIVE FormatHex(_)
FormatHex(n) ==
    IF n < 16 THEN <<HexDigit(n)>>
    ELSE FormatHex(n \div 16) \o <<HexDigit(n % 16)>>

RECURSIVE ZeroPad(_, _)
ZeroPad(s, width) == IF Len(s) >= width THEN s ELSE ZeroPad(<<"0">> \o s, width)

\* fmt.Sprintf("%08x", n)
Sprintf08xMutNoPad(n) == FormatHex(n)

Sprintf08x(n) == ZeroPad(FormatHex(n), 8)

-----------------------------------------------------------------------------
(* CHD header: parseHeader and NewReader *)

headerSize == 124
rawSHA1Offset == 64
sha1Offset == 84
parentSHA1Offset == 104
sha1Size == 20
MinVersion == 5

Zero20 == [i \in 1..sha1Size |-> 0]

\* the header SHA1s of lib/chd/testdata/empty.chd
RawSHA1Sample == <<246, 52, 143, 133, 216, 72, 126, 122, 255, 31,
                   165, 78, 89, 135, 177, 114, 188, 226, 163, 166>>
SHA1Sample == <<205, 216, 186, 165, 30, 123, 132, 187, 17, 3,
                127, 179, 65, 93, 105, 141, 1, 31, 228, 10>>

\* 20 bytes, all zero but the one at index k
OneNonZero(k, b) == [i \in 1..sha1Size |-> IF i = k THEN b ELSE 0]

\* "MComprHD"
MagicBytes == <<77, 67, 111, 109, 112, 114, 72, 68>>
\* "MComprHX"
OtherMagicBytes == <<77, 67, 111, 109, 112, 114, 72, 88>>

Zeros(n) == [i \in 1..n |-> 0]

\* buf[a:b] of a Go slice
Slice(buf, a, b) == SubSeq(buf, a + 1, b)

\* binary.BigEndian.Uint32 / Uint64
RECURSIVE BigEndian(_)
BigEndian(bytes) ==
    IF bytes = <<>> THEN 0
    ELSE 256 * BigEndian(SubSeq(bytes, 1, Len(bytes) - 1)) + bytes[Len(bytes)]

\* n as `width` big-endian bytes (to build input files)
RECURSIVE PutBigEndian(_, _)
PutBigEndian(n, width) ==
    IF width = 0 THEN <<>>
    ELSE PutBigEndian(n \div 256, width - 1) \o <<n % 256>>

\* the 124 header bytes of a file with these fields (codecs, map offset,
\* metadata offset and unit size are left zero)
HeaderBytes(magic, headerLen, version, logical, hunk, raw, sha, parent) ==
    magic \o PutBigEndian(headerLen, 4) \o PutBigEndian(version, 4) \o Zeros(16)
    \o PutBigEndian(logical, 8) \o Zeros(16) \o PutBigEndian(hunk, 4) \o Zeros(4)
    \o raw \o sha \o parent

Err(msg) == [ok |-> FALSE, err |-> msg]

\* uint32((logicalBytes + uint64(hunkBytes) - 1) / uint64(hunkBytes)), in the
\* model's widths: the sum wraps at the logical width, the result is cut to the
\* hunk width
TotalHunks(logicalBytes, hunkBytes) ==
    IF hunkBytes > 0
    THEN (((logicalBytes + hunkBytes - 1) % Pow2(LogicalBits)) \div hunkBytes)
         % Pow2(HunkBits)
    ELSE 0

\* the loop over parentSHA1Bytes
ParentSHA1String(parent) ==
    IF \E i \in 1..Len(parent) : parent[i] # 0
    THEN EncodeToString(parent)
    ELSE <<>>

\* the version check of parseHeader
VersionSupportedMutOff(version) == version >= MinVersion - 1

VersionSupported(version) == version >= MinVersion

\* parseHeader on f = [size, readOk, bytes]: bytes are the file's first
\* min(size, 124) bytes, readOk says whether ReadAt delivers them
parseHeader(f) ==
    IF f.size < headerSize THEN Err("file too small for CHD header")
    ELSE IF ~f.readOk THEN Err("failed to read CHD header")
    ELSE LET buf == f.bytes
             headerLen == BigEndian(Slice(buf, 8, 12))
             version == BigEndian(Slice(buf, 12, 16))
             logicalBytes == BigEndian(Slice(buf, 32, 40))
             hunkBytes == BigEndian(Slice(buf, 56, 60))
         IN
         IF Slice(buf, 0, 8) # MagicBytes THEN Err("not a valid CHD file: invalid magic")
         ELSE IF ~VersionSupported(version) THEN Err("CHD version not supported")
         ELSE IF headerLen < headerSize THEN Err("CHD header too small")
         ELSE [ok |-> TRUE,
               header |-> [Version |-> version,
                           LogicalBytes |-> logicalBytes,
                           HunkBytes |-> hunkBytes,
                           TotalHunks |-> TotalHunks(logicalBytes, hunkBytes),
                           RawSHA1 |-> EncodeToString(
                                           Slice(buf, rawSHA1Offset, rawSHA1Offset + sha1Size)),
                           SHA1 |-> EncodeToString(
                                        Slice(buf, sha1Offset, sha1Offset + sha1Size)),
                           ParentSHA1 |-> ParentSHA1String(
                                              Slice(buf, parentSHA1Offset,
                                                    parentSHA1Offset + sha1Size))]]

\* decodeMap's result as far as NewReader looks at it: no hunks, no map to read
decodeMapOk(header, mapOk) == header.TotalHunks = 0 \/ mapOk

\* NewReader; mapOk and tracksOk say whether the hunk map and the track
\* metadata stored in the file decode
NewReader(f, mapOk, tracksOk) ==
    LET h == parseHeader(f) IN
    IF ~h.ok THEN Err("parse header")
    ELSE IF h.header.ParentSHA1 # <<>> THEN Err("parent CHD references not supported")
    ELSE IF ~decodeMapOk(h.header, mapOk) THEN Err("decode hunk map")
    ELSE IF ~tracksOk THEN Err("parse tracks")
    ELSE [ok |-> TRUE, header |-> h.header]

-----------------------------------------------------------------------------
(* Formats, hash kinds and the extension table *)

FormatUnknown == "unknown"
FormatCHD == "chd"

HashModeDefault == "default"
HashModeFast == "fast"
HashModeSlow == "slow"
HashModes == {HashModeDefault, HashModeFast, HashModeSlow}

HashSHA1 == "sha1"
HashMD5 == "md5"
HashCRC32 == "crc32"
HashZipCRC32 == "zip-crc32"
HashCHDUncompressedSHA1 == "chd-uncompressed-sha1"
HashCHDCompressedSHA1 == "chd-compressed-sha1"

\* 65 MiB
fastModeSmallFileThreshold == 68157440

\* Detector.CandidatesByExtension: the candidate formats of a file name, in order
CandidatesByExtension(filename) ==
    LET ext == ToLower(Ext(filename)) IN
    CASE ext = S(".chd") -> <<FormatCHD>>
      [] ext = S(".zip") -> <<"zip">>
      [] ext = S(".iso") -> <<"xiso", "iso9660">>
      [] ext = S(".xiso") -> <<"xiso">>
      [] ext = S(".xbe") -> <<"xbe">>
      [] ext = S(".gba") -> <<"gba">>
      [] ext = S(".z64") -> <<"z64">>
      [] ext = S(".v64") -> <<"v64">>
      [] ext = S(".n64") -> <<"n64">>
      [] ext \in {S(".gb"), S(".gbc")} -> <<"gb">>
      [] ext \in {S(".md"), S(".gen")} -> <<"md">>
      [] ext = S(".smd") -> <<"smd">>
      [] ext \in {S(".nds"), S(".dsi"), S(".ids")} -> <<"nds">>
      [] ext = S(".nes") -> <<"nes">>
      [] ext \in {S(".sfc"), S(".smc")} -> <<"snes">>
      [] OTHER -> <<>>

\* the least file size at which checkMagic can find the format's magic bytes
\* (offset + length); 1 for the formats verified by a parser
MagicEnd(fmt) ==
    CASE fmt = FormatCHD -> 8
      [] fmt = "zip" -> 4
      [] fmt = "xiso" -> 65556
      [] fmt = "xbe" -> 4
      [] fmt = "iso9660" -> 32774
      [] fmt = "gba" -> 179
      [] OTHER -> 1

\* isZIP: the ZIP local-file magic at offset 0
isZIP(f) == f.size >= 4 /\ f.magic4 = "PK34"

-----------------------------------------------------------------------------
(* Inputs of SpecIdentify *)

NameGBA == <<"a", ".", "g", "b", "a">>
NameISO == <<"B", ".", "I", "S", "O">>
NameCHD == <<"s", "/", "e", ".", "c", "h", "d">>
NameBin == <<"c", ".", "b", "i", "n">>
NameNoExt == <<"a", ".", "d", "/", "e">>
NameZip == <<"z", ".", "z", "i", "p">>
Root == <<"/", "r", "/">>

FileNames == {NameGBA, NameISO, NameCHD, NameBin, NameNoExt}

FileSizes == {0, 8, headerSize, fastModeSmallFileThreshold - 1,
              fastModeSmallFileThreshold, fastModeSmallFileThreshold + 1}

\* what a folder walk or a ZIP central directory lists: files and directories
RawEntries ==
    { [name |-> NameGBA, isDir |-> FALSE, crc32 |-> 2002446165,
       size |-> fastModeSmallFileThreshold - 1],
      [name |-> NameISO, isDir |-> FALSE, crc32 |-> 48879,
       size |-> fastModeSmallFileThreshold],
      [name |-> NameCHD, isDir |-> FALSE, crc32 |-> 1, size |-> headerSize],
      [name |-> NameNoExt, isDir |-> FALSE, crc32 |-> 0, size |-> 0],
      [name |-> <<"s", "/">>, isDir |-> TRUE, crc32 |-> 0, size |-> 0] }

SeqsUpTo(set, n) == UNION { [1..k -> set] : k \in 0..n }

Paths ==
    { [kind |-> "missing"] }
    \cup { [kind |-> "file", name |-> Root \o n, size |-> sz, magic4 |-> "other"] :
             n \in FileNames, sz \in FileSizes }
    \cup { [kind |-> "file", name |-> Root \o NameZip, size |-> 4096, magic4 |-> "PK34",
            raw |-> raw] : raw \in SeqsUpTo(RawEntries, MaxEntries) }
    \cup { [kind |-> "dir", name |-> Root \o <<"d">>, raw |-> raw] :
             raw \in SeqsUpTo(RawEntries, MaxEntries) }

\* headers a .chd file may start with
HeaderChoices ==
    { HeaderBytes(MagicBytes, headerSize, MinVersion, 4, 2, RawSHA1Sample, SHA1Sample, Zero20),
      HeaderBytes(MagicBytes, headerSize, MinVersion, 4, 2, SHA1Sample, Zero20, Zero20),
      HeaderBytes(MagicBytes, headerSize, MinVersion, 4, 2, RawSHA1Sample, SHA1Sample,
                  OneNonZero(sha1Size, 1)),
      HeaderBytes(MagicBytes, headerSize, MinVersion - 1, 4, 2, RawSHA1Sample, SHA1Sample,
                  Zero20),
      HeaderBytes(OtherMagicBytes, headerSize, MinVersion, 4, 2, RawSHA1Sample, SHA1Sample,
                  Zero20) }

\* what trying one candidate on a reader can come to
Outcomes == {"seek_err", "magic_ok", "magic_fail", "identified", "identify_err"}

OutcomesFor(fmt, size) == { oc \in Outcomes : oc = "magic_ok" => size >= MagicEnd(fmt) }

-----------------------------------------------------------------------------
(* Values the variables of a component hold while another one is checked *)

IdleIdentify ==
    /\ pc = "idle" /\ opts = None /\ path = None /\ open = {} /\ deferred = {}
    /\ entries = <<>> /\ idx = 0 /\ items = <<>> /\ rdr = None /\ ci = 0
    /\ tried = <<>> /\ format = NoFormat /\ game = None /\ hdr = <<>>
    /\ itemRes = None /\ log = <<>> /\ result = None

IdleHeader == hpc = "idle" /\ hfile = None /\ hres = None

IdleHunk == hunkMap = <<>> /\ hunkCache = <<>> /\ rhHunk = -1 /\ rhRes = None

IdleMap == mpc = "idle" /\ mfile = None /\ mres = None

IdleReadAt == rdHeader = None /\ raCall = None /\ raRes = None

IdleZip ==
    /\ zfile = None /\ zbuf = <<>> /\ zrdr = -1 /\ zerr = FALSE /\ zpos = 0
    /\ zopens = 0 /\ zlast = None

IdleSector == srd = None /\ sphys = 0 /\ scall = None /\ sres = None

IdleIso == iso = None /\ ocall = None /\ ores = None

IdleCnf == cnfData = <<>> /\ cnfRes = None

IdleN64 == n64Native = <<>> /\ n64File = None /\ n64Res = None

IdleRegion == regCall = None /\ regRes = None

IdleNes == nesFile = None /\ nesRes = None

IdleConc == ccache = <<>> /\ cbufs = <<>> /\ cmu = None /\ cthr = <<>> /\ cdec = {}

IdleEntries == dmIn = None /\ dmRes = None

IdleTracks == tmArea = None /\ tmMeta = 0 /\ tmPc = "idle" /\ tmOffset = 0 /\ tmTracks = <<>> /\ tmVisited = <<>> /\ tmTick = 0 /\ tmRes = None

IdleTrackRead == trChd = None /\ trTrack = None /\ trOff = 0 /\ trLen = 0 /\ trN = 0 /\ trTick = 0 /\ trRes = None

IdleCodec == cdHeader = None /\ cdMap = <<>> /\ cdCache = <<>> /\ cdRes = None

\* every component but c is idle
IdleExcept(c) ==
    /\ IF c = "identify" THEN TRUE ELSE IdleIdentify
    /\ IF c = "header" THEN TRUE ELSE IdleHeader
    /\ IF c \in {"hunk", "readat"} THEN TRUE ELSE IdleHunk
    /\ IF c = "map" THEN TRUE ELSE IdleMap
    /\ IF c = "readat" THEN TRUE ELSE IdleReadAt
    /\ IF c = "zip" THEN TRUE ELSE IdleZip
    /\ IF c = "sector" THEN TRUE ELSE IdleSector
    /\ IF c = "iso" THEN TRUE ELSE IdleIso
    /\ IF c = "cnf" THEN TRUE ELSE IdleCnf
    /\ IF c = "n64" THEN TRUE ELSE IdleN64
    /\ IF c = "region" THEN TRUE ELSE IdleRegion
    /\ IF c = "nes" THEN TRUE ELSE IdleNes
    /\ IF c = "conc" THEN TRUE ELSE IdleConc
    /\ IF c = "entries" THEN TRUE ELSE IdleEntries
    /\ IF c = "tracks" THEN TRUE ELSE IdleTracks
    /\ IF c = "trackread" THEN TRUE ELSE IdleTrackRead
    /\ IF c = "codec" THEN TRUE ELSE IdleCodec

-----------------------------------------------------------------------------
(* SpecIdentify: one Identify call *)

gameVars == <<ci, tried, format, game>>
loopVars == <<entries, idx, items>>

EmptyHashes == <<>>

\* handles: the file, the archive, the folder, the reader of entry k
FileHandle == <<"file", 0>>
ArchiveHandle == <<"archive", 0>>
FolderHandle == <<"folder", 0>>
EntryHandle(k) == <<"entry", k>>
NoHandle == <<"-", 0>>

\* a function return: the pending defers run, the result goes to the caller
Return(res, o, d, l) ==
    /\ result' = res
    /\ open' = o \ d
    /\ deferred' = {}
    /\ log' = Append(l, <<"return", NoHandle>>)
    /\ pc' = "done"

\* `defer h.Close()`
DeferMutForgotten(h) == deferred

Defer(h) == deferred \cup {h}

Result(its) == [ok |-> TRUE, Items |-> its]

\* ZIPHandler.Open / FolderHandler.ListFiles: the files, directories skipped
EntriesMutKeepDirs(raw) ==
    [i \in 1..Len(raw) |->
        [Name |-> raw[i].name, Size |-> raw[i].size, CRC32 |-> raw[i].crc32]]

Entries(raw) ==
    LET files == SelectSeq(raw, LAMBDA e : ~e.isDir) IN
    [i \in 1..Len(files) |->
        [Name |-> files[i].name, Size |-> files[i].size, CRC32 |-> files[i].crc32]]

\* Identify: stat the path, then the folder or the file branch
Identify ==
    /\ pc = "Identify"
    /\ IF path.kind = "missing"
       THEN Return(Err("failed to stat path"), open, deferred, log)
       ELSE /\ pc' = IF path.kind = "dir" THEN "identifyFolder" ELSE "identifyFile"
            /\ UNCHANGED <<result, open, deferred, log>>
    /\ UNCHANGED <<opts, path, loopVars, rdr, gameVars, hdr, itemRes, notIdVars>>

\* identifyFile: os.Open and its defer
identifyFileOpen ==
    /\ pc = "identifyFile"
    /\ \E ok \in BOOLEAN :
         IF ~ok
         THEN Return(Err("failed to open file"), open, deferred, log)
         ELSE /\ open' = open \cup {FileHandle}
              /\ deferred' = Defer(FileHandle)
              /\ log' = Append(log, <<"open", FileHandle>>)
              /\ pc' = "isZIP"
              /\ UNCHANGED result
    /\ UNCHANGED <<opts, path, loopVars, rdr, gameVars, hdr, itemRes, notIdVars>>

\* the reader identifyReader is called on
StartReader(h, name, size, ctx) ==
    /\ rdr' = [h |-> h, name |-> name, size |-> size, ctx |-> ctx]
    /\ ci' = 1
    /\ tried' = <<>>
    /\ format' = NoFormat
    /\ game' = None
    /\ hdr' = <<>>
    /\ itemRes' = None
    /\ pc' = "identifyGame"

\* identifyFile: the ZIP check, then identifyZIP or identifyReader on the file
identifyFileDispatch ==
    /\ pc = "isZIP"
    /\ IF isZIP(path)
       THEN /\ pc' = "identifyZIP"
            /\ UNCHANGED <<rdr, gameVars, hdr, itemRes>>
       ELSE StartReader(FileHandle, Base(path.name), path.size, "file")
    /\ UNCHANGED <<opts, path, open, deferred, loopVars, log, result, notIdVars>>

\* identifyZIP / identifyFolder up to the loop: open the container, defer its
\* Close, list the entries, fail on none
OpenContainer(h, loop, emptyMsg) ==
    \E ok \in BOOLEAN :
      IF ~ok
      THEN /\ Return(Err("failed to open container"), open, deferred, log)
           /\ UNCHANGED loopVars
      ELSE IF Len(Entries(path.raw)) = 0
      THEN /\ Return(Err(emptyMsg), open \cup {h}, Defer(h), Append(log, <<"open", h>>))
           /\ UNCHANGED loopVars
      ELSE /\ open' = open \cup {h}
           /\ deferred' = Defer(h)
           /\ log' = Append(log, <<"open", h>>)
           /\ entries' = Entries(path.raw)
           /\ idx' = 1
           /\ items' = <<>>
           /\ pc' = loop
           /\ UNCHANGED result

identifyZIPOpen ==
    /\ pc = "identifyZIP"
    /\ OpenContainer(ArchiveHandle, "zipLoop", "ZIP archive is empty")
    /\ UNCHANGED <<opts, path, rdr, gameVars, hdr, itemRes, notIdVars>>

identifyFolderOpen ==
    /\ pc = "identifyFolder"
    /\ OpenContainer(FolderHandle, "folderLoop", "folder is empty")
    /\ UNCHANGED <<opts, path, rdr, gameVars, hdr, itemRes, notIdVars>>

\* c.OpenFileAt(entry.Name) and the call of identifyReader on its reader
OpenEntry(ctx) ==
    \E ok \in BOOLEAN :
      IF ~ok
      THEN /\ Return(Err("failed to open entry"), open, deferred,
                     Append(log, <<"openfail", EntryHandle(idx)>>))
           /\ UNCHANGED <<rdr, gameVars, hdr, itemRes>>
      ELSE /\ open' = open \cup {EntryHandle(idx)}
           /\ log' = Append(log, <<"open", EntryHandle(idx)>>)
           /\ StartReader(EntryHandle(idx), entries[idx].Name, entries[idx].Size, ctx)
           /\ UNCHANGED <<deferred, result>>

folderOpenEntry ==
    /\ pc = "folderLoop"
    /\ idx <= Len(entries)
    /\ OpenEntry("folder")
    /\ UNCHANGED <<opts, path, loopVars, notIdVars>>

zipOpenEntry ==
    /\ pc = "zipLoop"
    /\ idx <= Len(entries)
    /\ opts.HashMode = HashModeSlow
    /\ OpenEntry("zip")
    /\ UNCHANGED <<opts, path, loopVars, notIdVars>>

\* identifyZIP, fast/default branch: the item built from the ZIP metadata
ZipMetadataItem(entry) ==
    LET candidates == CandidatesByExtension(entry.Name) IN
    [Name |-> entry.Name,
     Size |-> entry.Size,
     Format |-> IF Len(candidates) = 1 THEN candidates[1] ELSE FormatUnknown,
     Hashes |-> IF entry.CRC32 # 0
                THEN (HashZipCRC32 :> Sprintf08x(entry.CRC32))
                ELSE EmptyHashes,
     Game |-> None]

zipMetadataEntry ==
    /\ pc = "zipLoop"
    /\ idx <= Len(entries)
    /\ opts.HashMode # HashModeSlow
    /\ items' = Append(items, ZipMetadataItem(entries[idx]))
    /\ idx' = idx + 1
    /\ UNCHANGED <<pc, opts, path, open, deferred, entries, rdr, gameVars, hdr, itemRes,
                   log, result, notIdVars>>

\* the end of the loops: return the Result
zipLoopDone ==
    /\ pc = "zipLoop"
    /\ idx > Len(entries)
    /\ Return(Result(items), open, deferred, log)
    /\ UNCHANGED <<opts, path, loopVars, rdr, gameVars, hdr, itemRes, notIdVars>>

folderLoopDone ==
    /\ pc = "folderLoop"
    /\ idx > Len(entries)
    /\ Return(Result(items), open, deferred, log)
    /\ UNCHANGED <<opts, path, loopVars, rdr, gameVars, hdr, itemRes, notIdVars>>

\* what a successful entry.Identify returns
GameInfo(fmt) == [parsedAs |-> fmt]

\* identifyGame, one pass of the loop body on candidate fmt with outcome oc
tryCandidateMutStop(fmt, oc) ==
    CASE oc = "seek_err" -> [returned |-> FALSE]
      [] oc = "magic_ok" -> [returned |-> TRUE, format |-> fmt, game |-> None]
      [] oc = "magic_fail" -> [returned |-> FALSE]
      [] oc = "identified" -> [returned |-> TRUE, format |-> fmt, game |-> GameInfo(fmt)]
      [] oc = "identify_err" -> [returned |-> TRUE, format |-> FormatUnknown, game |-> None]

tryCandidate(fmt, oc) ==
    CASE oc = "seek_err" -> [returned |-> FALSE]
      [] oc = "magic_ok" -> [returned |-> TRUE, format |-> fmt, game |-> None]
      [] oc = "magic_fail" -> [returned |-> FALSE]
      [] oc = "identified" -> [returned |-> TRUE, format |-> fmt, game |-> GameInfo(fmt)]
      [] oc = "identify_err" -> [returned |-> FALSE]

\* identifyGame: the candidate at ci is tried
identifyGameTry ==
    /\ pc = "identifyGame"
    /\ LET candidates == CandidatesByExtension(rdr.name) IN
       /\ ci <= Len(candidates)
       /\ \E oc \in OutcomesFor(candidates[ci], rdr.size) :
            LET r == tryCandidate(candidates[ci], oc) IN
            /\ tried' = Append(tried, [format |-> candidates[ci], outcome |-> oc])
            /\ IF r.returned
               THEN /\ format' = r.format
                    /\ game' = r.game
                    /\ pc' = "hashes"
                    /\ log' = Append(log, <<"detected", rdr.h>>)
                    /\ UNCHANGED ci
               ELSE /\ ci' = ci + 1
                    /\ UNCHANGED <<format, game, pc, log>>
    /\ UNCHANGED <<opts, path, open, deferred, loopVars, rdr, hdr, itemRes, result,
                   notIdVars>>

\* identifyGame: no candidate (left): unknown, no game
identifyGameNone ==
    /\ pc = "identifyGame"
    /\ ci > Len(CandidatesByExtension(rdr.name))
    /\ format' = FormatUnknown
    /\ game' = None
    /\ pc' = "hashes"
    /\ log' = Append(log, <<"detected", rdr.h>>)
    /\ UNCHANGED <<opts, path, open, deferred, loopVars, rdr, ci, tried, hdr, itemRes,
                   result, notIdVars>>

\* calculateHashes: the three digests of the reader's bytes
calculateHashes(r) ==
    (HashSHA1 :> <<"sha1", r.name, r.size>>)
    @@ (HashMD5 :> <<"md5", r.name, r.size>>)
    @@ (HashCRC32 :> <<"crc32", r.name, r.size>>)

\* fast mode skips the hashes of large files
skipHashesMutGreater(mode, size) ==
    mode = HashModeFast /\ size > fastModeSmallFileThreshold

skipHashes(mode, size) == mode = HashModeFast /\ size >= fastModeSmallFileThreshold

\* the Hashes of a CHD item, lifted from the header
chdHashesMutSwapped(header) ==
    (HashCHDUncompressedSHA1 :> header.SHA1) @@ (HashCHDCompressedSHA1 :> header.RawSHA1)

chdHashes(header) ==
    (HashCHDUncompressedSHA1 :> header.RawSHA1) @@ (HashCHDCompressedSHA1 :> header.SHA1)

\* identifyReader after identifyGame: the item and its hashes. io says what the
\* reads meet: seekOk, readOk (header read), mapOk, tracksOk, hashOk; bytes are
\* the header fields at the start of the reader. `hashed` records whether
\* calculateHashes was called.
identifyReader(mode, r, fmt, gm, bytes, io) ==
    LET item == [Name |-> r.name, Size |-> r.size, Format |-> fmt,
                 Hashes |-> EmptyHashes, Game |-> gm] IN
    IF fmt = FormatCHD
    THEN IF ~io.seekOk THEN Err("failed to seek") @@ [hashed |-> FALSE]
         ELSE LET chdReader == NewReader([size |-> r.size, readOk |-> io.readOk,
                                          bytes |-> bytes], io.mapOk, io.tracksOk) IN
              IF ~chdReader.ok THEN Err("failed to parse CHD header") @@ [hashed |-> FALSE]
              ELSE [ok |-> TRUE, hashed |-> FALSE,
                    item |-> [item EXCEPT !.Hashes = chdHashes(chdReader.header)]]
    ELSE IF skipHashes(mode, r.size)
    THEN [ok |-> TRUE, hashed |-> FALSE, item |-> item]
    ELSE IF ~io.seekOk THEN Err("failed to seek") @@ [hashed |-> FALSE]
    ELSE IF ~io.hashOk THEN Err("failed to calculate hashes") @@ [hashed |-> TRUE]
    ELSE [ok |-> TRUE, hashed |-> TRUE,
          item |-> [item EXCEPT !.Hashes = calculateHashes(r)]]

IOs == [seekOk : BOOLEAN, readOk : BOOLEAN, mapOk : BOOLEAN, tracksOk : BOOLEAN,
        hashOk : BOOLEAN]

\* the headers a reader can hold, given what identifyGame saw of it
HeadersOf(fmt, trd) ==
    IF fmt # FormatCHD THEN {<<>>}
    ELSE { h \in HeaderChoices :
             trd[Len(trd)].outcome = "magic_ok" => Slice(h, 0, 8) = MagicBytes }

\* identifyReader: the hash policy
identifyReaderHashes ==
    /\ pc = "hashes"
    /\ \E bytes \in HeadersOf(format, tried), io \in IOs :
         LET r == identifyReader(opts.HashMode, rdr, format, game, bytes, io) IN
         /\ hdr' = bytes
         /\ itemRes' = r
         /\ log' = IF r.hashed THEN Append(log, <<"calculateHashes", rdr.h>>) ELSE log
    /\ pc' = IF rdr.ctx = "file" THEN "fileReturn" ELSE "closeEntry"
    /\ UNCHANGED <<opts, path, open, deferred, loopVars, rdr, gameVars, result,
                   notIdVars>>

\* the loops after identifyReader: reader.Close(), then the error check
closeEntryMutSkip ==
    /\ pc = "closeEntry"
    /\ open' = open \ {rdr.h}
    /\ log' = IF itemRes.ok THEN Append(log, <<"close", rdr.h>>)
              ELSE log \o << <<"close", rdr.h>>, <<"identfail", rdr.h>> >>
    /\ items' = IF itemRes.ok THEN Append(items, itemRes.item) ELSE items
    /\ idx' = idx + 1
    /\ pc' = IF rdr.ctx = "zip" THEN "zipLoop" ELSE "folderLoop"
    /\ UNCHANGED <<entries, deferred, result>>
    /\ UNCHANGED <<opts, path, rdr, gameVars, hdr, itemRes, notIdVars>>

closeEntry ==
    /\ pc = "closeEntry"
    /\ IF ~itemRes.ok
       THEN /\ Return(Err("failed to identify entry"), open \ {rdr.h}, deferred,
                      log \o << <<"close", rdr.h>>, <<"identfail", rdr.h>> >>)
            /\ UNCHANGED loopVars
       ELSE /\ open' = open \ {rdr.h}
            /\ log' = Append(log, <<"close", rdr.h>>)
            /\ items' = Append(items, itemRes.item)
            /\ idx' = idx + 1
            /\ pc' = IF rdr.ctx = "zip" THEN "zipLoop" ELSE "folderLoop"
            /\ UNCHANGED <<entries, deferred, result>>
    /\ UNCHANGED <<opts, path, rdr, gameVars, hdr, itemRes, notIdVars>>

\* identifyFile after identifyReader
fileReturn ==
    /\ pc = "fileReturn"
    /\ IF ~itemRes.ok
       THEN Return(Err(itemRes.err), open, deferred, log)
       ELSE Return(Result(<<itemRes.item>>), open, deferred, log)
    /\ UNCHANGED <<opts, path, loopVars, rdr, gameVars, hdr, itemRes, notIdVars>>

InitIdentify ==
    /\ pc = "Identify"
    /\ opts \in [HashMode : HashModes]
    /\ path \in Paths
    /\ open = {} /\ deferred = {}
    /\ entries = <<>> /\ idx = 0 /\ items = <<>>
    /\ rdr = None /\ ci = 0 /\ tried = <<>> /\ format = NoFormat /\ game = None
    /\ hdr = <<>> /\ itemRes = None /\ log = <<>> /\ result = None
    /\ IdleExcept("identify")

NextIdentify ==
    \/ Identify
    \/ identifyFileOpen
    \/ identifyFileDispatch
    \/ identifyZIPOpen
    \/ identifyFolderOpen
    \/ folderOpenEntry
    \/ zipOpenEntry
    \/ zipMetadataEntry
    \/ zipLoopDone
    \/ folderLoopDone
    \/ identifyGameTry
    \/ identifyGameNone
    \/ identifyReaderHashes
    \/ closeEntry
    \/ fileReturn

SpecIdentify == InitIdentify /\ [][NextIdentify]_vars

-----------------------------------------------------------------------------
(* Properties of SpecIdentify *)

Succeeded(t) == t.outcome \in {"magic_ok", "identified"}

IsPrefix(p, q) == Len(p) <= Len(q) /\ \A i \in 1..Len(p) : p[i] = q[i]

\* C1: identifyGame tries the candidates of the extension in registry order;
\* nothing is tried after a success; a failure never ends the scan; the first
\* success gives the format (and the game when an Identify function ran); with
\* no candidate or only failures the format is unknown and there is no game.
C1_FirstSuccessWins ==
    rdr # None =>
        LET candidates == CandidatesByExtension(rdr.name)
            n == Len(tried)
        IN
        /\ IsPrefix([i \in 1..n |-> tried[i].format], candidates)
        /\ \A i \in 1..(n - 1) : ~Succeeded(tried[i])
        /\ (format = NoFormat) <=> (pc = "identifyGame")
        /\ format = NoFormat => \A i \in 1..n : ~Succeeded(tried[i])
        /\ format # NoFormat =>
             IF n > 0 /\ Succeeded(tried[n])
             THEN /\ format = candidates[n]
                  /\ (game = None) <=> (tried[n].outcome = "magic_ok")
                  /\ game # None => game.parsedAs = candidates[n]
             ELSE /\ n = Len(candidates)
                  /\ format = "unknown"
                  /\ game = None

\* C1 witness: for an .iso file the first candidate failed, the second succeeded
C1_Witness ==
    /\ pc = "hashes"
    /\ Len(tried) = 2
    /\ tried[1].outcome = "identify_err"
    /\ tried[2].outcome = "identified"
    /\ format = "iso9660"
    /\ game # None

FilesOf(raw) == SelectSeq(raw, LAMBDA e : ~e.isDir)

LowerHex == {"0", "1", "2", "3", "4", "5", "6", "7", "8", "9", "a", "b", "c", "d", "e", "f"}

HexValue(c) == CHOOSE v \in 0..15 : HexDigits[v + 1] = c

\* the number a hex string denotes
RECURSIVE ParseHex(_)
ParseHex(str) ==
    IF str = <<>> THEN 0
    ELSE 16 * ParseHex(SubSeq(str, 1, Len(str) - 1)) + HexValue(str[Len(str)])

IsLowerHex(str, n) == Len(str) = n /\ \A i \in 1..n : str[i] \in LowerHex

InMetadataMode == pc # "idle" /\ path.kind = "file" /\ isZIP(path) /\ opts.HashMode # "slow"

ExtensionFormat(name) ==
    LET c == CandidatesByExtension(name) IN IF Len(c) = 1 THEN c[1] ELSE "unknown"

\* what C2 says of the item of ZIP entry e
ZipCrcOnly(it, e) ==
    /\ DOMAIN it.Hashes = {"zip-crc32"}
    /\ IsLowerHex(it.Hashes["zip-crc32"], 8)
    /\ ParseHex(it.Hashes["zip-crc32"]) = e.crc32

\* C2 as stated: in default and fast mode every ZIP entry's item carries
\* exactly the zip-crc32 fingerprint, 8 lowercase hex digits of the entry's
\* CRC-32, no game, and the extension's format when there is exactly one
\* candidate, whatever the CRC-32 value.
C2_ZipCrcForEveryEntry ==
    InMetadataMode =>
        \A i \in 1..Len(items) :
            /\ ZipCrcOnly(items[i], FilesOf(path.raw)[i])
            /\ items[i].Game = None
            /\ items[i].Format = ExtensionFormat(FilesOf(path.raw)[i].name)

\* C2 amended: the same for every entry whose CRC-32 is not 0; the item of an
\* entry whose CRC-32 is 0 carries no fingerprint at all.
C2_ZipCrcUnlessZero ==
    InMetadataMode =>
        \A i \in 1..Len(items) :
            LET e == FilesOf(path.raw)[i] IN
            /\ e.crc32 # 0 => ZipCrcOnly(items[i], e)
            /\ e.crc32 = 0 => DOMAIN items[i].Hashes = {}
            /\ items[i].Game = None
            /\ items[i].Format = ExtensionFormat(e.name)

\* C2 witness: a returned Result with a zero-padded fingerprint (0000beef, of an
\* .ISO entry with two candidates) and the item of a CRC-32 0 entry
C2_Witness ==
    /\ InMetadataMode
    /\ pc = "done" /\ result.ok
    /\ Len(result.Items) = 2
    /\ result.Items[1].Hashes = ("zip-crc32" :> <<"0", "0", "0", "0", "b", "e", "e", "f">>)
    /\ result.Items[1].Format = "unknown"
    /\ result.Items[2].Hashes = <<>>

\* identifyReader has returned an item for the current reader
ItemReturned == pc \in {"closeEntry", "fileReturn"} /\ itemRes.ok

DecodeHex(str) ==
    [i \in 1..(Len(str) \div 2) |-> 16 * HexValue(str[2 * i - 1]) + HexValue(str[2 * i])]

\* C4: a CHD item carries exactly chd-uncompressed-sha1 and
\* chd-compressed-sha1, the lowercase hex of header bytes 64..83 and 84..103,
\* in every mode, and calculateHashes is not called on its reader.
C4_ChdHeaderHashes ==
    (ItemReturned /\ format = "chd") =>
        LET h == itemRes.item.Hashes IN
        /\ DOMAIN h = {"chd-uncompressed-sha1", "chd-compressed-sha1"}
        /\ IsLowerHex(h["chd-uncompressed-sha1"], 40)
        /\ IsLowerHex(h["chd-compressed-sha1"], 40)
        /\ DecodeHex(h["chd-uncompressed-sha1"]) = SubSeq(hdr, 65, 84)
        /\ DecodeHex(h["chd-compressed-sha1"]) = SubSeq(hdr, 85, 104)
        /\ \A i \in 1..Len(log) : log[i] # <<"calculateHashes", rdr.h>>

\* C4 witness: a .chd entry of a ZIP in slow mode, with the header SHA1s of
\* empty.chd
C4_Witness ==
    /\ ItemReturned /\ format = "chd"
    /\ opts.HashMode = "slow" /\ rdr.ctx = "zip"
    /\ SubSeq(hdr, 65, 84) = RawSHA1Sample
    /\ SubSeq(hdr, 85, 104) = SHA1Sample

EntryFailed(ev) == ev[1] \in {"openfail", "identfail"}

\* C5: when opening or identifying an entry of a folder or slow-mode archive
\* fails, Identify returns an error and no Result, and no later entry is opened.
C5_FirstFailureAborts ==
    \A i \in 1..Len(log) :
        EntryFailed(log[i]) =>
            /\ pc = "done"
            /\ ~result.ok
            /\ DOMAIN result = {"ok", "err"}
            /\ \A j \in 1..Len(log) :
                 (log[j][1] \in {"open", "openfail"} /\ log[j][2][1] = "entry")
                     => log[j][2][2] <= log[i][2][2]

\* C5 witness: the second entry failed to identify after the first gave an item
C5_Witness ==
    /\ pc = "done"
    /\ Len(items) = 1
    /\ Len(entries) = 2
    /\ \E i \in 1..Len(log) : log[i] = <<"identfail", <<"entry", 2>>>>
    /\ ~result.ok

IsContainer == path.kind = "dir" \/ (path.kind = "file" /\ isZIP(path))

\* C6: a returned Result has at least one item; its items correspond one to
\* one, in order, to the container's file entries (directories excluded), a
\* single file gives exactly one item; a container without file entries gives
\* an error.
C6_ItemsMatchEntries ==
    pc = "done" =>
        /\ result.ok =>
             /\ Len(result.Items) >= 1
             /\ IF IsContainer
                THEN /\ Len(result.Items) = Len(FilesOf(path.raw))
                     /\ \A i \in 1..Len(result.Items) :
                          result.Items[i].Name = FilesOf(path.raw)[i].name
                ELSE /\ Len(result.Items) = 1
                     /\ result.Items[1].Name = Base(path.name)
        /\ (IsContainer /\ Len(FilesOf(path.raw)) = 0) => ~result.ok

\* C6 witness: a folder with a directory and then a file gave one item
C6_Witness ==
    /\ pc = "done" /\ result.ok
    /\ path.kind = "dir"
    /\ Len(path.raw) = 2 /\ path.raw[1].isDir /\ ~path.raw[2].isDir
    /\ Len(result.Items) = 1

EntryHandles(set) == { h \in set : h[1] = "entry" }

\* C7: at every return all handles the call opened are closed; at most one
\* entry reader is open at a time, the reader of entry k being closed before
\* entry k+1 is opened; detection of a reader is over before it is hashed.
C7_ReadersReleased ==
    /\ pc = "done" => open = {}
    /\ Cardinality(EntryHandles(open)) <= 1
    /\ \A i \in 1..Len(log) :
         (log[i][1] = "open" /\ log[i][2][1] = "entry" /\ log[i][2][2] > 1)
             => \E j \in 1..(i - 1) : log[j] = <<"close", <<"entry", log[i][2][2] - 1>>>>
    /\ \A i \in 1..Len(log) :
         log[i][1] = "calculateHashes"
             => \E j \in 1..(i - 1) : log[j] = <<"detected", log[i][2]>>

\* C7 witness: an error return after the archive and two entry readers were opened
C7_Witness ==
    /\ pc = "done" /\ ~result.ok
    /\ \E i \in 1..Len(log) : log[i] = <<"open", <<"archive", 0>>>>
    /\ \E i \in 1..Len(log) : log[i] = <<"open", <<"entry", 2>>>>
    /\ \E i \in 1..Len(log) : log[i] = <<"calculateHashes", <<"entry", 2>>>>
    /\ open = {}

-----------------------------------------------------------------------------
(* SpecHeader: NewReader and parseHeader on bounded files *)

GoodHeader(logical, hunk) ==
    HeaderBytes(MagicBytes, headerSize, MinVersion, logical, hunk,
                RawSHA1Sample, SHA1Sample, Zero20)

\* files that differ in what the header checks look at
CheckedFiles ==
    { [size |-> sz, readOk |-> rd,
       bytes |-> Slice(HeaderBytes(mg, hl, ver, 2, 1, RawSHA1Sample, SHA1Sample, par),
                      0, Min(sz, headerSize))] :
        sz \in {0, headerSize - 1, headerSize, headerSize + 1},
        rd \in BOOLEAN,
        mg \in {MagicBytes, OtherMagicBytes},
        hl \in {headerSize - 1, headerSize},
        ver \in {MinVersion - 1, MinVersion, MinVersion + 1},
        par \in {Zero20, OneNonZero(1, 1), OneNonZero(sha1Size, 255), RawSHA1Sample} }

\* well-formed headers with every logical size and hunk size of the model's widths
SizedFiles ==
    { [size |-> headerSize, readOk |-> TRUE, bytes |-> GoodHeader(l, h)] :
        l \in 0..(Pow2(LogicalBits) - 1), h \in 0..(Pow2(HunkBits) - 1) }

InitHeader ==
    /\ hpc = "input"
    /\ hfile \in CheckedFiles \cup SizedFiles
    /\ hres = None
    /\ IdleExcept("header")

CallParseHeader ==
    /\ hpc = "input"
    /\ hres' = parseHeader(hfile)
    /\ hpc' = "parsed"
    /\ UNCHANGED <<hfile, notHdrVars>>

CallNewReader ==
    /\ hpc = "input"
    /\ \E mapOk \in BOOLEAN, tracksOk \in BOOLEAN :
         hres' = NewReader(hfile, mapOk, tracksOk)
    /\ hpc' = "opened"
    /\ UNCHANGED <<hfile, notHdrVars>>

NextHeader == CallParseHeader \/ CallNewReader

SpecHeader == InitHeader /\ [][NextHeader]_vars

\* the ceiling of a / b over the unbounded integers
CeilDiv(a, b) == (a + b - 1) \div b

HasNonZero(bytes) == \E i \in 1..Len(bytes) : bytes[i] # 0

\* C8: NewReader returns an error and no reader whenever the size is below
\* 124, the first 8 bytes are not MComprHD, the version field is below 5 or one
\* of the parent-SHA1 bytes (offsets 104..123) is non-zero; a header parsed
\* with 20 zero parent bytes has ParentSHA1 = "".
C8_NewReaderRejects ==
    /\ (hpc = "opened" /\ ( \/ hfile.size < 124
                            \/ SubSeq(hfile.bytes, 1, 8) # MagicBytes
                            \/ BigEndian(SubSeq(hfile.bytes, 13, 16)) < 5
                            \/ HasNonZero(SubSeq(hfile.bytes, 105, 124)) ))
          => (~hres.ok /\ DOMAIN hres = {"ok", "err"})
    /\ (hpc \in {"parsed", "opened"} /\ hres.ok)
          => (~HasNonZero(SubSeq(hfile.bytes, 105, 124)) => hres.header.ParentSHA1 = <<>>)

\* C8 witnesses: a file rejected for its version 4 alone
C8_Witness ==
    /\ hpc = "opened"
    /\ ~hres.ok
    /\ hfile.size >= 124 /\ hfile.readOk
    /\ SubSeq(hfile.bytes, 1, 8) = MagicBytes
    /\ BigEndian(SubSeq(hfile.bytes, 9, 12)) >= 124
    /\ BigEndian(SubSeq(hfile.bytes, 13, 16)) = 4
    /\ ~HasNonZero(SubSeq(hfile.bytes, 105, 124))

\* C9: every header parseHeader accepts has
\* TotalHunks = ceil(LogicalBytes / HunkBytes)
C9_TotalHunksIsCeiling ==
    (hpc = "parsed" /\ hres.ok /\ BigEndian(SubSeq(hfile.bytes, 57, 60)) > 0)
        => hres.header.TotalHunks = CeilDiv(BigEndian(SubSeq(hfile.bytes, 33, 40)),
                                            BigEndian(SubSeq(hfile.bytes, 57, 60)))

-----------------------------------------------------------------------------
(* SpecHunk: Reader.readHunk over a decoded hunk map *)

compressionType0 == 0
compressionNone == 4
compressionSelf == 5
compressionParent == 6

\* the cap of the hunk cache
hunkCacheCap == 32

\* uint32(entry.offset): the hunk a self-reference names
refHunkOf(entry) == entry.offset % Pow2(HunkBits)

\* the forward-reference check
isForwardReferenceMutReversed(refHunk, hunkNum) == refHunk <= hunkNum

isForwardReference(refHunk, hunkNum) == refHunk >= hunkNum

\* the end of readHunk: store under the write lock unless the cache is full
storeHunk(cache, hunkNum, data) ==
    IF Cardinality(DOMAIN cache) < hunkCacheCap
    THEN (hunkNum :> data) @@ cache
    ELSE cache

\* readHunk(hunkNum) on cache `cache`; `bad` are the hunks whose bytes cannot
\* be read or decoded. The result carries the cache afterwards and `visited`,
\* the hunk numbers readHunk was called on, outermost first.
RECURSIVE readHunk(_, _, _, _)
readHunk(map, cache, hunkNum, bad) ==
    LET fail == [ok |-> FALSE, cache |-> cache, visited |-> <<hunkNum>>] IN
    IF hunkNum \in DOMAIN cache
    THEN [ok |-> TRUE, data |-> cache[hunkNum], cache |-> cache, visited |-> <<hunkNum>>]
    ELSE IF hunkNum >= Len(map) THEN fail
    ELSE LET entry == map[hunkNum + 1] IN
         CASE entry.compression \in {compressionNone, compressionType0} ->
                IF hunkNum \in bad THEN fail
                ELSE [ok |-> TRUE, data |-> <<"hunk", hunkNum>>,
                      cache |-> storeHunk(cache, hunkNum, <<"hunk", hunkNum>>),
                      visited |-> <<hunkNum>>]
           [] entry.compression = compressionSelf ->
                IF isForwardReference(refHunkOf(entry), hunkNum) THEN fail
                ELSE LET r == readHunk(map, cache, refHunkOf(entry), bad) IN
                     IF ~r.ok
                     THEN [ok |-> FALSE, cache |-> r.cache,
                           visited |-> <<hunkNum>> \o r.visited]
                     ELSE [ok |-> TRUE, data |-> r.data,
                           cache |-> storeHunk(r.cache, hunkNum, r.data),
                           visited |-> <<hunkNum>> \o r.visited]
           [] OTHER -> fail

\* entries decodeMapEntries can produce: stored (codec 0 or none), parent, and
\* self with a 64-bit offset that may lie beyond the 32-bit hunk numbers
\* (lastSelf++ after a self offset of 2^32 - 1)
MapEntries ==
    { [compression |-> c, offset |-> 0] :
        c \in {compressionType0, compressionNone, compressionParent} }
    \cup { [compression |-> compressionSelf, offset |-> o] :
             o \in (0..(MaxHunks - 1)) \cup {Pow2(HunkBits)} }

InitHunk ==
    /\ hunkMap \in [1..MaxHunks -> MapEntries]
    /\ hunkCache = <<>>
    /\ rhHunk = -1
    /\ rhRes = None
    /\ IdleExcept("hunk")

\* a readHunk call, as ReadAt and readSector make them
CallReadHunk ==
    /\ \E hunkNum \in 0..MaxHunks,
          bad \in {{}} \cup { {b} : b \in 0..(MaxHunks - 1) } :
         LET r == readHunk(hunkMap, hunkCache, hunkNum, bad) IN
         /\ hunkCache' = r.cache
         /\ rhHunk' = hunkNum
         /\ rhRes' = [ok |-> r.ok, visited |-> r.visited]
    /\ UNCHANGED <<hunkMap, notHunkVars>>

NextHunk == CallReadHunk

SpecHunk == InitHunk /\ [][NextHunk]_vars

IsSelf(i) == i < Len(hunkMap) /\ hunkMap[i + 1].compression = compressionSelf

\* the hunk number readHunk takes from a self entry (32 bits of the offset)
Referent(i) == hunkMap[i + 1].offset % Pow2(HunkBits)

\* C10: resolving a self-referenced hunk i whose referent j is >= i fails and
\* caches nothing for i; a self-reference that resolves reads a referent
\* j < i, so the hunks a call follows strictly decrease.
C10_SelfReferencesGoBackwards ==
    /\ \A i \in DOMAIN hunkCache : IsSelf(i) => Referent(i) < i
    /\ rhHunk >= 0 =>
         /\ (IsSelf(rhHunk) /\ Referent(rhHunk) >= rhHunk)
               => (~rhRes.ok /\ rhHunk \notin DOMAIN hunkCache)
         /\ \A k \in 1..(Len(rhRes.visited) - 1) :
               /\ rhRes.visited[k + 1] < rhRes.visited[k]
               /\ IsSelf(rhRes.visited[k])
               /\ Referent(rhRes.visited[k]) = rhRes.visited[k + 1]

\* C10 witness: hunk 2 refers to itself and was rejected, after hunk 1, a
\* reference to hunk 0, was resolved and cached
C10_Witness ==
    /\ rhHunk = 2 /\ ~rhRes.ok
    /\ IsSelf(2) /\ Referent(2) = 2
    /\ IsSelf(1) /\ Referent(1) = 0
    /\ DOMAIN hunkCache = {0, 1}

-----------------------------------------------------------------------------
(* SpecMap: decodeMap and the CRC of the decoded hunk map *)

\* a ^ b on naturals
RECURSIVE Xor(_, _)
Xor(a, b) ==
    IF a = 0 THEN b
    ELSE IF b = 0 THEN a
    ELSE 2 * Xor(a \div 2, b \div 2) + (((a % 2) + (b % 2)) % 2)

crc16Poly == 4129
crc16Init == 65535

\* the inner loop of crc16: `n` shifts of the uint16 register
RECURSIVE crc16Shift(_, _)
crc16Shift(crc, n) ==
    IF n = 0 THEN crc
    ELSE crc16Shift(IF crc >= 32768
                    THEN Xor((crc * 2) % 65536, crc16Poly)
                    ELSE (crc * 2) % 65536,
                    n - 1)

RECURSIVE crc16From(_, _)
crc16From(crc, data) ==
    IF data = <<>> THEN crc
    ELSE LET next == crc16Shift(Xor(crc, Head(data) * 256), 8) IN
         IF next >= 0 THEN crc16From(next, Tail(data)) ELSE 0

crc16(data) == crc16From(crc16Init, data)

\* byte(x >> shift)
ByteAt(x, shift) == (x \div Pow2(shift)) % 256

\* the 12 bytes calculateMapCRC writes for one entry
SerializeEntry(e) ==
    <<e.compression,
      ByteAt(e.length, 16), ByteAt(e.length, 8), ByteAt(e.length, 0),
      0, 0, ByteAt(e.offset, 24), ByteAt(e.offset, 16), ByteAt(e.offset, 8),
      ByteAt(e.offset, 0),
      ByteAt(e.crc16, 8), ByteAt(e.crc16, 0)>>

RECURSIVE SerializeEntries(_)
SerializeEntries(es) ==
    IF es = <<>> THEN <<>> ELSE SerializeEntry(Head(es)) \o SerializeEntries(Tail(es))

calculateMapCRC(es) == crc16(SerializeEntries(es))

\* the comparison `crc != mapCRC` of two uint16
crcMatchesMutHighByte(crc, mapCRC) == crc \div 256 = mapCRC \div 256

crcMatches(crc, mapCRC) == crc = mapCRC

\* decodeMap on the map stored in f: f.mapReadOk says whether the map header and
\* the compressed data can be read, f.decodeOk whether decodeMapEntries
\* succeeds, f.entries what it decodes to, f.mapCRC is the map header's CRC
decodeMap(f, header) ==
    IF header.TotalHunks = 0 THEN [ok |-> TRUE, entries |-> <<>>]
    ELSE IF ~f.mapReadOk THEN Err("failed to read map")
    ELSE IF ~f.decodeOk THEN Err("failed to decode map entries")
    ELSE IF ~crcMatches(calculateMapCRC(f.entries), f.mapCRC) THEN Err("map CRC mismatch")
    ELSE [ok |-> TRUE, entries |-> f.entries]

\* entries of the stored map: the codec, raw, self and parent forms; the offsets
\* fit the model's integers, so the two high offset bytes are zero
StoredEntries ==
    { [compression |-> compressionType0, length |-> 3, offset |-> 140, crc16 |-> 4660],
      [compression |-> compressionNone, length |-> 70000, offset |-> 143, crc16 |-> 0],
      [compression |-> compressionSelf, length |-> 0, offset |-> 0, crc16 |-> 0],
      [compression |-> compressionParent, length |-> 0, offset |-> 1, crc16 |-> 0] }

\* flips the lowest bit
FlipBit(c) == IF c % 2 = 0 THEN c + 1 ELSE c - 1

\* a CHD file with n hunks of one byte, the entries its map decodes to, and a
\* stored CRC that is right, off by one bit, or a fixed value
MapFiles ==
    UNION { { [size |-> headerSize, readOk |-> TRUE, bytes |-> GoodHeader(Len(es), 1),
               mapReadOk |-> rd, decodeOk |-> dec, entries |-> es, mapCRC |-> c] :
                rd \in BOOLEAN, dec \in BOOLEAN,
                c \in {calculateMapCRC(es), FlipBit(calculateMapCRC(es)), 0, crc16Init} } :
            es \in UNION { [1..n -> StoredEntries] : n \in 0..MaxHunks } }

InitMap ==
    /\ mpc = "input"
    /\ mfile \in MapFiles
    /\ mres = None
    /\ IdleExcept("map")

CallDecodeMap ==
    /\ mpc = "input"
    /\ mres' = decodeMap(mfile, parseHeader(mfile).header)
    /\ mpc' = "decoded"
    /\ UNCHANGED <<mfile, notMapVars>>

\* NewReader on the file: the map decodes as decodeMap says
CallNewReaderOnMap ==
    /\ mpc = "input"
    /\ \E tracksOk \in BOOLEAN :
         mres' = NewReader(mfile, decodeMap(mfile, parseHeader(mfile).header).ok, tracksOk)
    /\ mpc' = "opened"
    /\ UNCHANGED <<mfile, notMapVars>>

NextMap == CallDecodeMap \/ CallNewReaderOnMap

SpecMap == InitMap /\ [][NextMap]_vars

\* CRC-16-CCITT bit by bit: polynomial 0x1021, initial value 0xFFFF, most
\* significant bit first
RECURSIVE CcittBits(_, _, _)
CcittBits(crc, byte, n) ==
    IF n = 0 THEN crc
    ELSE LET bit == (byte \div Pow2(n - 1)) % 2
             top == crc \div 32768
             shifted == (crc * 2) % 65536
         IN CcittBits(IF top # bit THEN Xor(shifted, 4129) ELSE shifted, byte, n - 1)

RECURSIVE Ccitt(_, _)
Ccitt(crc, data) ==
    IF data = <<>> THEN crc
    ELSE LET next == CcittBits(crc, Head(data), 8) IN
         IF next >= 0 THEN Ccitt(next, Tail(data)) ELSE 0

\* 1 type byte, 24-bit length, 48-bit offset, 16-bit CRC, big-endian
CanonicalEntry(e) ==
    <<e.compression>> \o PutBigEndian(e.length % Pow2(24), 3)
    \o PutBigEndian(e.offset, 6) \o PutBigEndian(e.crc16, 2)

RECURSIVE CanonicalMap(_)
CanonicalMap(es) ==
    IF es = <<>> THEN <<>> ELSE CanonicalEntry(Head(es)) \o CanonicalMap(Tail(es))

\* C11: decodeMap returns a hunk map, and NewReader a reader, only if the
\* CRC-16-CCITT of the decoded entries in their 12-byte form equals the CRC of
\* the map header, for every header, one with zero total hunks included.
C11_MapCrcMismatchIsFatal ==
    (mpc \in {"decoded", "opened"} /\ mres.ok)
        => Ccitt(65535, CanonicalMap(mfile.entries)) = mfile.mapCRC

\* C11 as the code has it: with at least one hunk in the header, decodeMap
\* returns a map, and NewReader a reader, only if the CRC-16-CCITT of the
\* decoded entries equals the CRC of the map header, and the map returned is
\* the decoded one; with zero hunks the map is empty whatever the file holds.
C11_MapCrcCheckedWhenHunks ==
    (mpc \in {"decoded", "opened"} /\ mres.ok)
        => IF BigEndian(SubSeq(mfile.bytes, 33, 40)) > 0
           THEN /\ Ccitt(65535, CanonicalMap(mfile.entries)) = mfile.mapCRC
                /\ mpc = "decoded" => mres.entries = mfile.entries
           ELSE mpc = "decoded" => mres.entries = <<>>

\* C11 witness: NewReader failed on a readable, decodable map of two hunks
\* whose stored CRC is one bit off
C11_Witness ==
    /\ mpc = "opened" /\ ~mres.ok
    /\ mfile.mapReadOk /\ mfile.decodeOk
    /\ Len(mfile.entries) = 2
    /\ mfile.mapCRC = FlipBit(Ccitt(65535, CanonicalMap(mfile.entries)))

-----------------------------------------------------------------------------
(* SpecReadAt: CHD Reader.ReadAt over the hunks readHunk delivers *)

\* len(hunkData) of the data first stored for hunk src: HunkBytes for a raw
\* hunk, what the codec put out for a compressed one
DataLen(map, src, hunkBytes) ==
    IF map[src + 1].short THEN hunkBytes - 1 ELSE hunkBytes

\* hunkData[from : from+count]; a byte is named by the hunk it was stored for
\* and its place in that hunk's data
HunkSlice(src, from, count) == [k \in 1..count |-> <<src, from + k - 1>>]

\* the loop of ReadAt and the return after it
RECURSIVE ReadAtLoop(_, _, _, _, _, _, _, _, _)
ReadAtLoop(header, map, cache, bad, n, remaining, pos, out, hunkErr) ==
    LET done == [n |-> n,
                 err |-> IF n = 0 /\ remaining > 0 THEN "EOF" ELSE "nil",
                 out |-> out, cache |-> cache, hunkErr |-> hunkErr]
    IN
    IF ~(remaining > 0 /\ pos < header.LogicalBytes) THEN done
    ELSE IF header.HunkBytes = 0
    THEN [n |-> 0, err |-> "panic", out |-> <<>>, cache |-> cache, hunkErr |-> hunkErr]
    ELSE LET hunkNum == (pos \div header.HunkBytes) % Pow2(HunkBits)
             hunkOffset == pos % header.HunkBytes
             r == readHunk(map, cache, hunkNum, bad)
         IN
         IF ~r.ok
         THEN IF n > 0
              THEN [n |-> n, err |-> "nil", out |-> out, cache |-> r.cache,
                    hunkErr |-> TRUE]
              ELSE [n |-> 0, err |-> "error", out |-> <<>>, cache |-> r.cache,
                    hunkErr |-> TRUE]
         ELSE LET src == r.data[2]
                  available == DataLen(map, src, header.HunkBytes) - hunkOffset
                  toCopy == Min(remaining, available)
              IN
              IF available <= 0
              THEN [done EXCEPT !.cache = r.cache]
              ELSE ReadAtLoop(header, map, r.cache, bad, n + toCopy, remaining - toCopy,
                              pos + toCopy, out \o HunkSlice(src, hunkOffset, toCopy),
                              hunkErr)

\* ReadAt(p, off) with len(p) = len
ReadAt(header, map, cache, bad, len, off) ==
    IF off < 0
    THEN [n |-> 0, err |-> "error", out |-> <<>>, cache |-> cache, hunkErr |-> FALSE]
    ELSE IF off >= header.LogicalBytes
    THEN [n |-> 0, err |-> "EOF", out |-> <<>>, cache |-> cache, hunkErr |-> FALSE]
    ELSE ReadAtLoop(header, map, cache, bad, 0, len, off, <<>>, FALSE)

\* hunk sizes and buffer lengths of the calls
HunkSizes == {0, 2}
ReadLens == {0, 1, 3}

\* headers of readers NewReader can return, with at most MaxHunks hunks
ReadAtHeaders ==
    { [LogicalBytes |-> l, HunkBytes |-> h, TotalHunks |-> TotalHunks(l, h)] :
        l \in 0..(2 * MaxHunks), h \in HunkSizes }

\* map entries: a raw hunk, a compressed hunk whose codec put out one byte less
\* than HunkBytes, a reference to hunk 0, a parent reference
ReadAtEntries ==
    { [compression |-> compressionNone, offset |-> 0, short |-> FALSE],
      [compression |-> compressionType0, offset |-> 0, short |-> TRUE],
      [compression |-> compressionSelf, offset |-> 0, short |-> FALSE],
      [compression |-> compressionParent, offset |-> 0, short |-> FALSE] }

\* the cache of a new reader, and the cache after an earlier read of one hunk
WarmCaches(map) ==
    {<<>>} \cup { readHunk(map, <<>>, h, {}).cache : h \in 0..(Len(map) - 1) }

InitReadAt ==
    /\ rdHeader \in { h \in ReadAtHeaders :
                        /\ h.TotalHunks <= MaxHunks
                        /\ h.HunkBytes = 0 => h.LogicalBytes <= 1
                        /\ h.LogicalBytes <= h.HunkBytes * MaxHunks + 1 }
    /\ hunkMap \in [1..rdHeader.TotalHunks -> ReadAtEntries]
    /\ hunkCache \in WarmCaches(hunkMap)
    /\ rhHunk = -1 /\ rhRes = None
    /\ raCall = None /\ raRes = None
    /\ IdleExcept("readat")

CallReadAt ==
    /\ raCall = None
    /\ \E len \in ReadLens, off \in (-1)..(rdHeader.LogicalBytes + 1),
          bad \in {{}} \cup { {b} : b \in 0..(Len(hunkMap) - 1) } :
         LET r == ReadAt(rdHeader, hunkMap, hunkCache, bad, len, off) IN
         /\ raCall' = [len |-> len, off |-> off, bad |-> bad]
         /\ raRes' = [n |-> r.n, err |-> r.err, out |-> r.out, hunkErr |-> r.hunkErr]
         /\ hunkCache' = r.cache
    /\ UNCHANGED <<rdHeader, hunkMap, rhHunk, rhRes, notReadAtVars>>

NextReadAt == CallReadAt

SpecReadAt == InitReadAt /\ [][NextReadAt]_vars

\* a ReadAt call has returned (it did not stop in a run-time panic)
ReadAtReturned == raCall # None /\ raRes.err # "panic"

\* C12: ReadAt(p, off) returns (0, EOF) when off >= LogicalBytes and otherwise
\* a count n <= LogicalBytes - off, also when LogicalBytes is not a multiple of
\* HunkBytes and the range ends inside or past the last hunk.
C12_ReadAtClipsAtLogicalBytes ==
    ReadAtReturned =>
        /\ raCall.off >= rdHeader.LogicalBytes => (raRes.n = 0 /\ raRes.err = "EOF")
        /\ (0 <= raCall.off /\ raCall.off < rdHeader.LogicalBytes)
              => raRes.n <= rdHeader.LogicalBytes - raCall.off

\* C13: a ReadAt that returns fewer bytes than asked for because the data
\* ended returns io.EOF with the count, in the same call.
C13_ShortReadSignalsEOF ==
    (ReadAtReturned /\ raCall.off >= 0 /\ ~raRes.hunkErr /\ raRes.n < raCall.len
       /\ raCall.off + raRes.n >= rdHeader.LogicalBytes)
        => raRes.err = "EOF"

\* C14: when resolving a hunk fails during a ReadAt, the call returns an
\* error, also after earlier hunks of the call contributed bytes; it never
\* returns a nil error with a short count.
C14_HunkErrorPropagates ==
    (ReadAtReturned /\ raRes.hunkErr) => raRes.err = "error"

-----------------------------------------------------------------------------
(* SpecZip: one ZIPEntryReader under ReadAt, Seek and Close *)

\* the read loop of decompressTo on a stream at place `at`: each Read delivers
\* at most `step` bytes and at most the chunk; the Read at place failAt fails
RECURSIVE decompressLoop(_, _, _, _, _, _, _)
decompressLoop(buf, at, needed, chunk, step, failAt, size) ==
    IF Len(buf) >= needed THEN [ok |-> TRUE, buf |-> buf, at |-> at]
    ELSE IF at = failAt THEN [ok |-> FALSE, buf |-> buf, at |-> at]
    ELSE IF at >= size THEN [ok |-> TRUE, buf |-> buf, at |-> at]
    ELSE LET n == Min(Min(step, chunk), size - at) IN
         decompressLoop(buf \o [k \in 1..n |-> at + k - 1], at + n, needed, chunk,
                        step, failAt, size)

\* decompressTo(needed): opens the stream when z.reader is nil, then reads
decompressTo(buf, reader, needed, openOk, step, failAt, size) ==
    IF reader = -1 /\ ~openOk
    THEN [ok |-> FALSE, buf |-> buf, rdr |-> -1, opened |-> FALSE]
    ELSE LET at == IF reader = -1 THEN 0 ELSE reader
             toRead == needed - Len(buf)
         IN
         IF toRead <= 0
         THEN [ok |-> TRUE, buf |-> buf, rdr |-> at, opened |-> reader = -1]
         ELSE LET r == decompressLoop(buf, at, needed, Min(65536, toRead), step,
                                      failAt, size)
              IN [ok |-> r.ok, buf |-> r.buf, rdr |-> r.at, opened |-> reader = -1]

EntrySizes == {0, 2, 4}
ZipLens == {0, 1, 2}
SeekOffsets == {-1, 0, 1}
Whences == {"SeekStart", "SeekCurrent", "SeekEnd", "other"}

InitZip ==
    /\ zfile \in [UncompressedSize64 : EntrySizes]
    /\ zbuf = <<>> /\ zrdr = -1 /\ zerr = FALSE /\ zpos = 0
    /\ zopens = 0 /\ zlast = None
    /\ IdleExcept("zip")

\* ZIPEntryReader.ReadAt
zipReadAt ==
    \E len \in ZipLens, off \in 0..(zfile.UncompressedSize64 + 1),
       openOk \in BOOLEAN, step \in {1, 2},
       failAt \in (-1)..(zfile.UncompressedSize64 - 1) :
      LET size == zfile.UncompressedSize64
          call == [op |-> "ReadAt", len |-> len, off |-> off, before |-> zbuf]
          needed == Min(off + len, size)
          d == IF Len(zbuf) < needed
               THEN decompressTo(zbuf, zrdr, needed, openOk, step, failAt, size)
               ELSE [ok |-> TRUE, buf |-> zbuf, rdr |-> zrdr, opened |-> FALSE]
          available == Len(d.buf) - off
          count == Min(len, available)
      IN
      /\ IF zerr
         THEN /\ zlast' = call @@ [n |-> 0, err |-> "error", out |-> <<>>,
                                   grew |-> FALSE]
              /\ UNCHANGED <<zbuf, zrdr, zerr, zopens>>
         ELSE IF off >= size
         THEN /\ zlast' = call @@ [n |-> 0, err |-> "EOF", out |-> <<>>, grew |-> FALSE]
              /\ UNCHANGED <<zbuf, zrdr, zerr, zopens>>
         ELSE /\ zbuf' = d.buf
              /\ zrdr' = d.rdr
              /\ zopens' = IF d.opened THEN zopens + 1 ELSE zopens
              /\ zerr' = ~d.ok
              /\ zlast' = call @@
                   (IF ~d.ok
                    THEN [n |-> 0, err |-> "error", out |-> <<>>, grew |-> TRUE]
                    ELSE IF available <= 0
                    THEN [n |-> 0, err |-> "EOF", out |-> <<>>,
                          grew |-> Len(zbuf) < needed]
                    ELSE [n |-> count, err |-> "nil",
                          out |-> SubSeq(d.buf, off + 1, off + count),
                          grew |-> Len(zbuf) < needed])
      /\ UNCHANGED <<zfile, zpos, notZipVars>>

\* ZIPEntryReader.Seek
zipSeek ==
    \E offset \in SeekOffsets, whence \in Whences :
      LET newPos == CASE whence = "SeekStart" -> offset
                      [] whence = "SeekCurrent" -> zpos + offset
                      [] whence = "SeekEnd" -> zfile.UncompressedSize64 + offset
                      [] OTHER -> -1
          call == [op |-> "Seek", len |-> 0, off |-> offset, before |-> zbuf,
                   out |-> <<>>, grew |-> FALSE]
      IN
      /\ newPos <= MaxPos
      /\ IF whence = "other" \/ newPos < 0
         THEN /\ zlast' = call @@ [n |-> 0, err |-> "error"]
              /\ UNCHANGED zpos
         ELSE /\ zlast' = call @@ [n |-> newPos, err |-> "nil"]
              /\ zpos' = newPos
      /\ UNCHANGED <<zfile, zbuf, zrdr, zerr, zopens, notZipVars>>

\* ZIPEntryReader.Close
zipClose ==
    /\ zrdr' = -1
    /\ zlast' = [op |-> "Close", len |-> 0, off |-> 0, before |-> zbuf, out |-> <<>>,
                 grew |-> FALSE, n |-> 0, err |-> "nil"]
    /\ UNCHANGED <<zfile, zbuf, zerr, zpos, zopens, notZipVars>>

NextZip == zipReadAt \/ zipSeek \/ zipClose

SpecZip == InitZip /\ [][NextZip]_vars

\* buf holds the first Len(buf) bytes of the entry's data
IsEntryPrefix(buf) == \A i \in 1..Len(buf) : buf[i] = i - 1

\* C15: after any sequence of ReadAt, Seek and Close calls the entry stream
\* has been opened at most once, the buffer is a prefix of the entry's data and
\* has not shrunk, and a ReadAt inside the buffered prefix is served from the
\* buffer without further decompression.
C15_ZipBufferIsPrefixOpenedOnce ==
    /\ zopens <= 1
    /\ IsEntryPrefix(zbuf)
    /\ zlast # None =>
         /\ Len(zbuf) >= Len(zlast.before)
         /\ (zlast.op = "ReadAt" /\ ~zerr /\ zlast.len > 0
               /\ zlast.off + zlast.len <= Len(zlast.before))
              => /\ ~zlast.grew /\ zbuf = zlast.before
                 /\ zlast.out = [k \in 1..zlast.len |-> zlast.off + k - 1]

-----------------------------------------------------------------------------
(* SpecSector: SectorReader over a raw or cooked disc image *)

SectorSize2048 == 2048
SectorSize2352 == 2352
RawSectorHeader == 24

\* Go's / and % on int64: the quotient is truncated toward zero
GoDiv(a, b) == IF a >= 0 THEN a \div b ELSE -((-a) \div b)
GoMod(a, b) == a - b * GoDiv(a, b)

Min3(a, b, c) == Min(a, Min(b, c))

\* NewSectorReader
NewSectorReader(physicalSector, dataOffset, physicalSize) ==
    [physicalSector |-> physicalSector,
     dataOffset |-> dataOffset,
     size |-> (physicalSize \div physicalSector) * SectorSize2048]

\* how many bytes the sector still holds from offsetInSector on
bytesInSectorMutWhole(offsetInSector) == SectorSize2048

bytesInSector(offsetInSector) == SectorSize2048 - offsetInSector

\* the underlying ReadAt(buf, at) on a file of physSize bytes: the bytes are
\* named by their places; it fails when the place lies in sector failSector
PhysReadAt(physSize, physicalSector, count, at, failSector) ==
    IF at < 0 \/ (failSector >= 0 /\ GoDiv(at, physicalSector) = failSector)
    THEN [n |-> 0, err |-> "error", out |-> <<>>]
    ELSE IF at >= physSize THEN [n |-> 0, err |-> "EOF", out |-> <<>>]
    ELSE LET got == Min(count, physSize - at) IN
         [n |-> got, err |-> IF got < count THEN "EOF" ELSE "nil",
          out |-> [k \in 1..got |-> at + k - 1]]

\* the loop of SectorReader.ReadAt and the return after it
RECURSIVE SectorReadLoop(_, _, _, _, _, _, _)
SectorReadLoop(s, physSize, len, off, failSector, n, out) ==
    IF ~(n < len /\ off + n < s.size)
    THEN [n |-> n, err |-> IF n < len THEN "EOF" ELSE "nil", out |-> out]
    ELSE LET logicalOffset == off + n
             logicalSector == GoDiv(logicalOffset, SectorSize2048)
             offsetInSector == GoMod(logicalOffset, SectorSize2048)
             physicalOffset == logicalSector * s.physicalSector + s.dataOffset
                               + offsetInSector
             bytesToRead == Min3(len - n, bytesInSector(offsetInSector),
                                 s.size - logicalOffset)
             r == PhysReadAt(physSize, s.physicalSector, bytesToRead, physicalOffset,
                             failSector)
         IN
         IF r.err # "nil"
         THEN [n |-> n + r.n, err |-> r.err, out |-> out \o r.out]
         ELSE SectorReadLoop(s, physSize, len, off, failSector, n + r.n, out \o r.out)

SectorReadAt(s, physSize, len, off, failSector) ==
    IF off >= s.size THEN [n |-> 0, err |-> "EOF", out |-> <<>>]
    ELSE SectorReadLoop(s, physSize, len, off, failSector, 0, <<>>)

\* the sector layouts the callers use: cooked, MODE1/2352, MODE2/2352
SectorLayouts ==
    { [physicalSector |-> SectorSize2048, dataOffset |-> 0],
      [physicalSector |-> SectorSize2352, dataOffset |-> 16],
      [physicalSector |-> SectorSize2352, dataOffset |-> RawSectorHeader] }

SectorLens == {0, 1, 2, 3, SectorSize2048 + 1}

InitSector ==
    /\ \E lay \in SectorLayouts, whole \in 0..MaxSectors :
       \E tail \in {0, 1, lay.physicalSector - 1} :
         /\ sphys = whole * lay.physicalSector + tail
         /\ srd = NewSectorReader(lay.physicalSector, lay.dataOffset, sphys)
    /\ scall = None /\ sres = None
    /\ IdleExcept("sector")

CallSectorReadAt ==
    /\ scall = None
    /\ \E len \in SectorLens, sec \in 0..(MaxSectors + 1),
          d \in {-1, 0, 1, SectorSize2048 - 2, SectorSize2048 - 1},
          failSector \in (-1)..(MaxSectors - 1) :
         LET off == sec * SectorSize2048 + d IN
         /\ off >= -1
         /\ scall' = [len |-> len, off |-> off, failSector |-> failSector]
         /\ sres' = SectorReadAt(srd, sphys, len, off, failSector)
    /\ UNCHANGED <<srd, sphys, notSectorVars>>

NextSector == CallSectorReadAt

SpecSector == InitSector /\ [][NextSector]_vars

\* the physical place of logical offset L
PhysicalPlace(L) ==
    (L \div 2048) * srd.physicalSector + srd.dataOffset + (L % 2048)

\* place x lies in the 2048-byte data region of a whole sector of the file
InDataRegion(x) ==
    /\ x >= 0
    /\ x % srd.physicalSector >= srd.dataOffset
    /\ x % srd.physicalSector < srd.dataOffset + 2048
    /\ (x \div srd.physicalSector) < (sphys \div srd.physicalSector)

\* C16: Size() = (physical_size / physical_sector_size) * 2048; the byte
\* ReadAt returns for a logical offset L in [0, Size()) is the physical byte at
\* (L / 2048) * physical_sector_size + data_offset + (L mod 2048); a read at a
\* non-negative offset, across sector boundaries too, returns no byte outside
\* the data regions and none for an offset at or past Size().
C16_SectorTranslation ==
    /\ srd # None => srd.size = (sphys \div srd.physicalSector) * 2048
    /\ (scall # None /\ scall.off >= 0) =>
         /\ sres.n = Len(sres.out)
         /\ sres.n <= scall.len
         /\ scall.off + sres.n <= srd.size \/ sres.n = 0
         /\ \A k \in 1..sres.n :
               /\ sres.out[k] = PhysicalPlace(scall.off + k - 1)
               /\ InDataRegion(sres.out[k])
         /\ sres.err = "nil" => sres.n = scall.len
         /\ (scall.failSector = -1 /\ scall.off < srd.size)
               => sres.n = Min(scall.len, srd.size - scall.off)

\* C16 witness: a read of 2049 bytes from the last byte of sector 0 of a raw
\* image of two sectors: it crosses two sector boundaries and ends at Size()
C16_Witness ==
    /\ scall # None
    /\ srd.physicalSector = 2352 /\ srd.size = 4096
    /\ scall.off = 2047 /\ scall.len = 2049 /\ scall.failSector = -1
    /\ sres.n = 2049
    /\ sres.out[1] = srd.dataOffset + 2047
    /\ sres.out[2] = 2352 + srd.dataOffset

-----------------------------------------------------------------------------
(* SpecIso: ISO 9660 Reader.OpenFile and findEntry *)

sectorSize2048 == 2048

\* strings.ToUpper, on the letters the model's names use
ToUpperChar(c) ==
    IF \E i \in 1..Len(Lower) : Lower[i] = c
    THEN Upper[CHOOSE i \in 1..Len(Lower) : Lower[i] = c]
    ELSE c

ToUpper(s) == [i \in 1..Len(s) |-> ToUpperChar(s[i])]

\* strings.Split(s, "/")
RECURSIVE SplitFrom(_, _, _)
SplitFrom(s, i, cur) ==
    IF i > Len(s) THEN <<cur>>
    ELSE IF s[i] = "/" THEN <<cur>> \o SplitFrom(s, i + 1, <<>>)
    ELSE SplitFrom(s, i + 1, Append(cur, s[i]))

Split(s) == SplitFrom(s, 1, <<>>)

\* strings.Index(s, ";"), counted from 0; -1 when there is none
RECURSIVE IndexFrom(_, _)
IndexFrom(s, i) ==
    IF i > Len(s) THEN -1
    ELSE IF s[i] = ";" THEN i - 1
    ELSE IndexFrom(s, i + 1)

\* the version suffix is cut off the entry name
stripVersionMutKeep(entryName) == entryName

stripVersion(entryName) ==
    IF IndexFrom(entryName, 1) # -1
    THEN SubSeq(entryName, 1, IndexFrom(entryName, 1))
    ELSE entryName

\* the directory records stored at an extent (none at the extent of a file)
DirAt(image, loc) == IF loc \in DOMAIN image.dirs THEN image.dirs[loc] ELSE <<>>

\* the scan of findEntry from record i on
RECURSIVE findFrom(_, _, _)
findFrom(dir, i, name) ==
    IF i > Len(dir) THEN [ok |-> FALSE]
    ELSE IF stripVersion(ToUpper(dir[i].name)) = name
    THEN [ok |-> TRUE, extentLoc |-> dir[i].loc, extentLen |-> dir[i].len,
          isDir |-> dir[i].isDir]
    ELSE findFrom(dir, i + 1, name)

\* findEntry; the extents in `unreadable` cannot be read
findEntry(image, unreadable, dirExtentLoc, name) ==
    IF dirExtentLoc \in unreadable THEN [ok |-> FALSE]
    ELSE findFrom(DirAt(image, dirExtentLoc), 1, ToUpper(name))

\* the loop of OpenFile over parts[i..]
RECURSIVE openFrom(_, _, _, _, _)
openFrom(image, unreadable, parts, i, dirExtentLoc) ==
    IF i > Len(parts) THEN Err("empty path")
    ELSE LET e == findEntry(image, unreadable, dirExtentLoc, parts[i]) IN
         IF ~e.ok THEN Err("path component not found")
         ELSE IF i = Len(parts)
         THEN IF e.isDir THEN Err("is a directory, not a file")
              ELSE [ok |-> TRUE, offset |-> e.extentLoc * sectorSize2048,
                    size |-> e.extentLen]
         ELSE IF ~e.isDir THEN Err("is not a directory")
         ELSE openFrom(image, unreadable, parts, i + 1, e.extentLoc)

OpenFile(image, unreadable, opath) ==
    openFrom(image, unreadable, Split(opath), 1, image.rootExtentLoc)

\* the "." and ".." records every directory starts with (names 0x00 and 0x01)
DotEntries(self, parent) ==
    << [name |-> <<"NUL">>, loc |-> self, len |-> 2048, isDir |-> TRUE],
       [name |-> <<"SOH">>, loc |-> parent, len |-> 2048, isDir |-> TRUE] >>

\* records of the root directory (at extent 20) and of the directory D (at 21)
RootRecords ==
    { [name |-> <<"A", ";", "1">>, loc |-> 30, len |-> 5, isDir |-> FALSE],
      [name |-> <<"b">>, loc |-> 31, len |-> 2049, isDir |-> FALSE],
      [name |-> <<"D">>, loc |-> 21, len |-> 2048, isDir |-> TRUE],
      [name |-> <<"A">>, loc |-> 32, len |-> 0, isDir |-> FALSE] }

SubRecords ==
    { [name |-> <<"a", ";", "1">>, loc |-> 33, len |-> 7, isDir |-> FALSE],
      [name |-> <<"D">>, loc |-> 21, len |-> 2048, isDir |-> TRUE],
      [name |-> <<"E">>, loc |-> 34, len |-> 1, isDir |-> FALSE] }

Images ==
    { [rootExtentLoc |-> 20,
       dirs |-> (20 :> (DotEntries(20, 20) \o root))
                @@ (21 :> (DotEntries(21, 20) \o sub))] :
        root \in SeqsUpTo(RootRecords, MaxEntries),
        sub \in SeqsUpTo(SubRecords, MaxEntries) }

OpenPaths ==
    { <<>>, <<"A">>, <<"a">>, <<"A", ";", "1">>, <<"B">>, <<"D">>, <<"X">>,
      <<"d", "/", "A">>, <<"D", "/", "E">>, <<"D", "/", "D", "/", "e">>,
      <<"A", "/", "E">>, <<"D", "/">>, <<"/", "A">>, <<"D", "/", "/", "E">> }

InitIso ==
    /\ iso \in Images
    /\ ocall = None /\ ores = None
    /\ IdleExcept("iso")

CallOpenFile ==
    /\ ocall = None
    /\ \E opath \in OpenPaths, unreadable \in {{}, {20}, {21}} :
         /\ ocall' = [path |-> opath, unreadable |-> unreadable]
         /\ ores' = OpenFile(iso, unreadable, opath)
    /\ UNCHANGED <<iso, notIsoVars>>

NextIso == CallOpenFile

SpecIso == InitIso /\ [][NextIso]_vars

\* the components of a opath: what lies between its separators
SeparatorsOf(opath) == { i \in 1..Len(opath) : opath[i] = "/" }

ComponentOf(opath, k) ==
    LET seps == SeparatorsOf(opath)
        from == IF k = 1 THEN 1
                ELSE 1 + CHOOSE i \in seps : Cardinality({j \in seps : j < i}) = k - 2
        to == IF k = Cardinality(seps) + 1 THEN Len(opath)
              ELSE (CHOOSE i \in seps : Cardinality({j \in seps : j < i}) = k - 1) - 1
    IN SubSeq(opath, from, to)

\* the name of a record without its version suffix
WithoutVersion(name) ==
    IF \E i \in 1..Len(name) : name[i] = ";"
    THEN SubSeq(name, 1, (CHOOSE i \in 1..Len(name) :
                            name[i] = ";" /\ \A j \in 1..(i - 1) : name[j] # ";") - 1)
    ELSE name

\* a opath component names a record: case-insensitively, version suffix aside
Names(component, record) == ToLower(component) = ToLower(WithoutVersion(record.name))

\* the records a opath leads through, from component k in the directory at loc:
\* the first record each component names; FALSE where the opath cannot be followed
RECURSIVE Resolves(_, _, _)
Resolves(opath, k, loc) ==
    LET dir == DirAt(iso, loc)
        hits == { i \in 1..Len(dir) : Names(ComponentOf(opath, k), dir[i]) }
        last == k = Cardinality(SeparatorsOf(opath)) + 1
    IN
    IF loc \in ocall.unreadable \/ hits = {} THEN [found |-> FALSE]
    ELSE LET rec == dir[CHOOSE i \in hits : \A j \in hits : i <= j] IN
         IF last THEN (IF rec.isDir THEN [found |-> FALSE]
                       ELSE [found |-> TRUE, rec |-> rec])
         ELSE IF ~rec.isDir THEN [found |-> FALSE]
         ELSE Resolves(opath, k + 1, rec.loc)

-----------------------------------------------------------------------------
(* SpecCnf: IdentifyFromSystemCNF, parseSystemCNF, extractDiscID *)

\* strings.TrimSpace
RECURSIVE TrimLeft(_)
TrimLeft(s) == IF s # <<>> /\ Head(s) = " " THEN TrimLeft(Tail(s)) ELSE s

RECURSIVE TrimRight(_)
TrimRight(s) ==
    IF s # <<>> /\ s[Len(s)] = " " THEN TrimRight(SubSeq(s, 1, Len(s) - 1)) ELSE s

TrimSpace(s) == TrimRight(TrimLeft(s))

\* strings.Index(s, c), counted from 0; -1 when c does not occur
RECURSIVE IndexOf(_, _, _)
IndexOf(s, c, i) ==
    IF i > Len(s) THEN -1
    ELSE IF s[i] = c THEN i - 1
    ELSE IndexOf(s, c, i + 1)

\* strings.LastIndex(s, c), counted from 0; -1 when c does not occur
RECURSIVE LastIndexOf(_, _, _)
LastIndexOf(s, c, i) ==
    IF i < 1 THEN -1
    ELSE IF s[i] = c THEN i - 1
    ELSE LastIndexOf(s, c, i - 1)

\* strings.SplitN(line, "=", 2)
SplitN2(line) ==
    IF IndexOf(line, "=", 1) = -1 THEN <<line>>
    ELSE << SubSeq(line, 1, IndexOf(line, "=", 1)),
            SubSeq(line, IndexOf(line, "=", 1) + 2, Len(line)) >>

\* strings.ReplaceAll(s, old, new) for a one-character old; new is a string
RECURSIVE ReplaceAll(_, _, _)
ReplaceAll(s, old, new) ==
    IF s = <<>> THEN <<>>
    ELSE (IF Head(s) = old THEN new ELSE <<Head(s)>>) \o ReplaceAll(Tail(s), old, new)

extractDiscID(bootPath) ==
    LET lastBackslash ==
            IF LastIndexOf(bootPath, "\\", Len(bootPath)) = -1
            THEN LastIndexOf(bootPath, "/", Len(bootPath))
            ELSE LastIndexOf(bootPath, "\\", Len(bootPath))
        filename ==
            IF lastBackslash # -1
            THEN SubSeq(bootPath, lastBackslash + 2, Len(bootPath))
            ELSE bootPath
    IN IF IndexOf(filename, ";", 1) # -1
       THEN SubSeq(filename, 1, IndexOf(filename, ";", 1))
       ELSE filename

\* the BOOT case of parseSystemCNF
bootAppliesMutAlways(platform) == TRUE

bootApplies(platform) == platform # "PS2"

\* the scanner loop of parseSystemCNF: st is (platform, info) so far
RECURSIVE scanLines(_, _)
scanLines(lines, st) ==
    IF lines = <<>> THEN st
    ELSE LET line == TrimSpace(Head(lines))
             parts == SplitN2(line)
         IN
         IF Len(parts) # 2 THEN scanLines(Tail(lines), st)
         ELSE LET key == TrimSpace(parts[1])
                  value == TrimSpace(parts[2])
                  next ==
                      IF key = <<"B", "O", "O", "T", "2">>
                      THEN [st EXCEPT !.platform = "PS2",
                                      !.DiscID = extractDiscID(value)]
                      ELSE IF key = <<"B", "O", "O", "T">>
                      THEN IF bootApplies(st.platform)
                           THEN [st EXCEPT !.platform = "PS1",
                                           !.DiscID = extractDiscID(value)]
                           ELSE st
                      ELSE IF key = <<"V", "E", "R">>
                      THEN [st EXCEPT !.Version = value]
                      ELSE IF key = <<"V", "M", "O", "D", "E">>
                      THEN [st EXCEPT !.VideoMode = value]
                      ELSE st
              IN scanLines(Tail(lines), next)

parseSystemCNF(lines) ==
    LET st == scanLines(lines, [platform |-> "", DiscID |-> <<>>,
                                Version |-> <<>>, VideoMode |-> <<>>])
    IN IF st.DiscID = <<>> THEN [ok |-> FALSE, platform |-> ""]
       ELSE [ok |-> TRUE, platform |-> st.platform,
             info |-> [DiscID |-> st.DiscID, Version |-> st.Version,
                       VideoMode |-> st.VideoMode]]

decodeRegion(discID) ==
    IF Len(discID) < 4 THEN "RegionUnknown"
    ELSE LET prefix == ToUpper(SubSeq(discID, 1, 4)) IN
         IF prefix \in {<<"S", "L", "U", "S">>, <<"S", "C", "U", "S">>} THEN "RegionUS"
         ELSE IF prefix \in {<<"S", "L", "E", "S">>, <<"S", "C", "E", "S">>} THEN "RegionEU"
         ELSE IF prefix \in {<<"S", "L", "P", "S">>, <<"S", "C", "P", "S">>,
                             <<"S", "L", "P", "M">>, <<"S", "C", "P", "M">>} THEN "RegionJP"
         ELSE IF prefix \in {<<"S", "L", "K", "A">>, <<"S", "C", "K", "A">>} THEN "RegionKR"
         ELSE IF prefix = <<"S", "L", "A", "J">> THEN "RegionJP"
         ELSE "RegionUnknown"

IdentifyFromSystemCNF(lines) ==
    LET r == parseSystemCNF(lines) IN
    IF ~r.ok THEN [ok |-> FALSE]
    ELSE [ok |-> TRUE,
          Platform |-> r.platform,
          TitleID |-> ReplaceAll(ReplaceAll(r.info.DiscID, "_", <<"-">>), ".", <<>>),
          Regions |-> <<decodeRegion(r.info.DiscID)>>,
          Extra |-> r.info]

\* lines a SYSTEM.CNF may hold; key and file say what each line is meant to be
CnfLines ==
    { [text |-> <<"B", "O", "O", "T", "2", " ", "=", " ", "c", "d", "r", "o", "m", "0", ":", "\\", "S", "L", "U", "S", "_", "1", ".", "2", ";", "1">>,
       key |-> "BOOT2", file |-> <<"S", "L", "U", "S", "_", "1", ".", "2">>],
      [text |-> <<"B", "O", "O", "T", " ", "=", " ", "c", "d", "r", "o", "m", ":", "\\", "S", "C", "E", "S", "_", "3", ".", "4", ";", "1">>,
       key |-> "BOOT", file |-> <<"S", "C", "E", "S", "_", "3", ".", "4">>],
      [text |-> <<"B", "O", "O", "T", "2", "=", "c", "d", "r", "o", "m", "0", ":", "\\">>,
       key |-> "BOOT2", file |-> <<>>],
      [text |-> <<"B", "O", "O", "T", "=", "s", "l", "p", "m", "_", "5", ";", "2">>,
       key |-> "BOOT", file |-> <<"s", "l", "p", "m", "_", "5">>],
      [text |-> <<" ", "B", "O", "O", "T", "2", " ", "=", " ", "c", ":", "/", "d", "/", "S", ".", "6", " ">>,
       key |-> "BOOT2", file |-> <<"S", ".", "6">>],
      [text |-> <<"V", "E", "R", " ", "=", " ", "1", ".", "0">>,
       key |-> "VER", file |-> <<>>],
      [text |-> <<"T", "C", "B">>,
       key |-> "", file |-> <<>>],
      [text |-> <<"B", "O", "O", "T", " ", "=">>,
       key |-> "BOOT", file |-> <<>>] }

InitCnf ==
    /\ cnfData \in SeqsUpTo(CnfLines, MaxLines)
    /\ cnfRes = None
    /\ IdleExcept("cnf")

CallIdentifyFromSystemCNF ==
    /\ cnfRes = None
    /\ cnfRes' = IdentifyFromSystemCNF([i \in 1..Len(cnfData) |-> cnfData[i].text])
    /\ UNCHANGED <<cnfData, notCnfVars>>

NextCnf == CallIdentifyFromSystemCNF

SpecCnf == InitCnf /\ [][NextCnf]_vars

\* the positions of the lines with a key
LinesWithKey(key) == { i \in 1..Len(cnfData) : cnfData[i].key = key }

LastOf(set) == CHOOSE i \in set : \A j \in set : j <= i

\* a file name as a serial: "_" becomes "-", "." goes
SerialChars(file, i) ==
    IF file[i] = "." THEN <<>> ELSE IF file[i] = "_" THEN <<"-">> ELSE <<file[i]>>

RECURSIVE SerialFrom(_, _)
SerialFrom(file, i) ==
    IF i > Len(file) THEN <<>> ELSE SerialChars(file, i) \o SerialFrom(file, i + 1)

\* the result is the given platform with the given boot file
Reports(platform, file) ==
    /\ cnfRes.ok
    /\ cnfRes.Platform = platform
    /\ cnfRes.Extra.DiscID = file
    /\ cnfRes.TitleID = SerialFrom(file, 1)

-----------------------------------------------------------------------------
(* SpecN64: ParseN64, detectByteOrder, swapBytes16, swapBytes32 *)

N64HeaderSize == 64
n64ReservedByte == 128
n64PIBSDConfigOffset == 1
n64ClockRateOffset == 4
n64BootAddressOffset == 8
n64LibultraOffset == 12
n64CheckCodeOffset == 16
n64TitleOffset == 32
n64TitleLen == 20
n64GameCodeOffset == 59
n64GameCodeLen == 4
n64VersionOffset == 63

\* the bytes strings.TrimSpace takes for white space: \t \n \v \f \r and space
IsSpaceByte(b) == b \in {9, 10, 11, 12, 13, 32}

RECURSIVE TrimLeftBytes(_)
TrimLeftBytes(s) ==
    IF s # <<>> /\ IsSpaceByte(Head(s)) THEN TrimLeftBytes(Tail(s)) ELSE s

RECURSIVE TrimRightBytes(_)
TrimRightBytes(s) ==
    IF s # <<>> /\ IsSpaceByte(s[Len(s)])
    THEN TrimRightBytes(SubSeq(s, 1, Len(s) - 1)) ELSE s

\* util.ExtractASCII: up to the first NUL, white space trimmed at both ends
ExtractASCII(data) ==
    LET end == IF \E i \in 1..Len(data) : data[i] = 0
               THEN (CHOOSE i \in 1..Len(data) :
                        data[i] = 0 /\ \A j \in 1..(i - 1) : data[j] # 0) - 1
               ELSE Len(data)
    IN TrimRightBytes(TrimLeftBytes(SubSeq(data, 1, end)))

detectByteOrder(first4) ==
    IF first4[1] = n64ReservedByte THEN "z64"
    ELSE IF first4[2] = n64ReservedByte THEN "v64"
    ELSE IF first4[4] = n64ReservedByte THEN "n64"
    ELSE "unknown"

\* swapBytes16 from index i (counted from 0) on
RECURSIVE swapBytes16From(_, _)
swapBytes16From(data, i) ==
    IF i < Len(data) - 1
    THEN swapBytes16From([data EXCEPT ![i + 1] = data[i + 2], ![i + 2] = data[i + 1]],
                         i + 2)
    ELSE data

swapBytes16(data) == swapBytes16From(data, 0)

\* swapBytes32 from index i (counted from 0) on
RECURSIVE swapBytes32From(_, _)
swapBytes32From(data, i) ==
    IF i < Len(data) - 3
    THEN swapBytes32From([data EXCEPT ![i + 1] = data[i + 4], ![i + 2] = data[i + 3],
                                      ![i + 3] = data[i + 2], ![i + 4] = data[i + 1]],
                         i + 4)
    ELSE data

swapBytes32MutPairs(data) == swapBytes16From(data, 0)

swapBytes32(data) == swapBytes32From(data, 0)

\* parseN64Header; the unsigned fields are kept as their big-endian bytes
parseN64Header(header, byteOrder) ==
    LET gameCode == ExtractASCII(Slice(header, n64GameCodeOffset,
                                       n64GameCodeOffset + n64GameCodeLen))
    IN [ok |-> TRUE,
        PIBSDConfig |-> Slice(header, n64PIBSDConfigOffset, n64PIBSDConfigOffset + 3),
        ClockRate |-> Slice(header, n64ClockRateOffset, n64ClockRateOffset + 4),
        BootAddress |-> Slice(header, n64BootAddressOffset, n64BootAddressOffset + 4),
        LibultraVersion |-> Slice(header, n64LibultraOffset, n64LibultraOffset + 4),
        CheckCode |-> Slice(header, n64CheckCodeOffset, n64CheckCodeOffset + 8),
        Title |-> ExtractASCII(Slice(header, n64TitleOffset, n64TitleOffset + n64TitleLen)),
        GameCode |-> gameCode,
        CategoryCode |-> IF Len(gameCode) >= 4 THEN gameCode[1] ELSE 0,
        UniqueCode |-> IF Len(gameCode) >= 4 THEN SubSeq(gameCode, 2, 3) ELSE <<>>,
        Destination |-> IF Len(gameCode) >= 4 THEN gameCode[4] ELSE 0,
        Version |-> header[n64VersionOffset + 1],
        ByteOrder |-> byteOrder]

ParseN64(f) ==
    IF Len(f.bytes) < N64HeaderSize THEN Err("file too small for N64 header")
    ELSE IF ~f.readOk THEN Err("failed to read N64 header")
    ELSE LET byteOrder == detectByteOrder(Slice(f.bytes, 0, 4)) IN
         IF byteOrder = "unknown" THEN Err("not a valid N64 ROM")
         ELSE LET header == Slice(f.bytes, 0, N64HeaderSize) IN
              parseN64Header(IF byteOrder = "v64" THEN swapBytes16(header)
                             ELSE IF byteOrder = "n64" THEN swapBytes32(header)
                             ELSE header,
                             byteOrder)

\* a space-padded field
Padded(text, n) == text \o [i \in 1..(n - Len(text)) |-> 32]

\* native headers: 0x80, then the three configuration bytes, the words at
\* 0x04..0x0F, the check code, the title, the game code, the version
NativeHeaders ==
    { <<128, c1, c2, c3>> \o <<3, 147, 135, 0, 128, 0, 4, 0, 0, 0, 20, 73>>
      \o check \o Zeros(8) \o title \o Zeros(7) \o code \o <<version>> :
        c1 \in {55, 128}, c2 \in {18, 128}, c3 \in {64, 128},
        check \in { <<1, 2, 3, 4, 5, 6, 7, 8>>, <<255, 0, 128, 0, 0, 0, 0, 1>> },
        title \in { Padded(<<65, 66>>, 20), <<32, 65>> \o Zeros(18) },
        code \in { <<78, 65, 66, 69>>, <<78, 0, 0, 0>> },
        version \in {0, 1} }

\* the header as a .v64 file stores it: each pair of bytes swapped
StoredV64(h) == [i \in 1..Len(h) |-> IF i % 2 = 1 THEN h[i + 1] ELSE h[i - 1]]

\* the header as a .n64 file stores it: each 32-bit word reversed
StoredN64(h) == [i \in 1..Len(h) |-> h[4 * ((i - 1) \div 4) + 4 - ((i - 1) % 4)]]

StoredAs(order, h) ==
    IF order = "v64" THEN StoredV64(h)
    ELSE IF order = "n64" THEN StoredN64(h)
    ELSE h

InitN64 ==
    /\ n64Native \in NativeHeaders
    /\ \E order \in {"z64", "v64", "n64"}, readOk \in BOOLEAN, whole \in BOOLEAN :
         n64File = [order |-> order,
                    bytes |-> IF whole THEN StoredAs(order, n64Native)
                              ELSE SubSeq(StoredAs(order, n64Native), 1, N64HeaderSize - 1),
                    readOk |-> readOk]
    /\ n64Res = None
    /\ IdleExcept("n64")

CallParseN64 ==
    /\ n64Res = None
    /\ n64Res' = ParseN64(n64File)
    /\ UNCHANGED <<n64Native, n64File, notN64Vars>>

NextN64 == CallParseN64

SpecN64 == InitN64 /\ [][NextN64]_vars

\* ParseN64 was given a whole, readable header
ParsedWhole == n64Res # None /\ n64File.readOk /\ Len(n64File.bytes) = N64HeaderSize

\* the result reports the given order and the fields of the native header
SameAsNative(order) ==
    LET native == ParseN64([bytes |-> n64Native, readOk |-> TRUE]) IN
    /\ n64Res.ok
    /\ n64Res.ByteOrder = order
    /\ n64Res.Title = native.Title
    /\ n64Res.GameCode = native.GameCode
    /\ n64Res.CategoryCode = native.CategoryCode
    /\ n64Res.Destination = native.Destination
    /\ n64Res.Version = native.Version
    /\ n64Res.CheckCode = native.CheckCode

\* C19 as stated: whichever of the three orders a header starting with 0x80 is
\* stored in, ParseN64 reports that order and the fields of the native header.
C19_EveryOrderDetected ==
    ParsedWhole => SameAsNative(n64File.order)

\* C19 amended: the order is found by the first 0x80 among the stored bytes
\* 0, 1 and 3, so z64 is always reported with the native fields, v64 is when
\* native byte 1 is not 0x80, and n64 is when native bytes 2 and 3 are not
\* 0x80; a v64 file with native byte 1 = 0x80 and an n64 file with native
\* byte 3 = 0x80 are reported as z64, an n64 file with native byte 2 = 0x80
\* (and byte 3 not) as v64.
C19_OrderDetectedByFirstMarker ==
    ParsedWhole =>
        LET h == n64Native
            order == n64File.order
        IN
        /\ order = "z64" => SameAsNative("z64")
        /\ order = "v64" =>
               IF h[2] # 128 THEN SameAsNative("v64")
               ELSE n64Res.ok /\ n64Res.ByteOrder = "z64"
        /\ order = "n64" =>
               IF h[3] # 128 /\ h[4] # 128 THEN SameAsNative("n64")
               ELSE IF h[4] = 128 THEN n64Res.ok /\ n64Res.ByteOrder = "z64"
               ELSE n64Res.ok /\ n64Res.ByteOrder = "v64"

\* C19 witness: a word-reversed file read back as n64 with its title "AB"
C19_Witness ==
    /\ ParsedWhole
    /\ n64File.order = "n64"
    /\ n64File.bytes[4] = 128 /\ n64File.bytes[1] = 64
    /\ n64Res.ok /\ n64Res.ByteOrder = "n64"
    /\ n64Res.Title = <<65, 66>>
    /\ n64Res.GameCode = <<78, 65, 66, 69>>

-----------------------------------------------------------------------------
(* SpecRegion: Region.Parent, Region.Ancestors, Region.IsAncestorOf *)

RegionUnknown == ""
RegionWorld == "wor"
RegionEurope == "eu"
RegionAsia == "asi"
RegionAmerica == "ame"
RegionOceania == "oce"
RegionMiddleEast == "mor"
RegionAfrica == "afr"
RegionGermany == "de"
RegionFrance == "fr"
RegionUK == "uk"
RegionSpain == "sp"
RegionItaly == "it"
RegionNetherlands == "nl"
RegionSweden == "se"
RegionDenmark == "dk"
RegionFinland == "fi"
RegionNorway == "no"
RegionPortugal == "pt"
RegionPoland == "pl"
RegionCzech == "cz"
RegionHungary == "hu"
RegionSlovakia == "sk"
RegionBulgaria == "bg"
RegionGreece == "gr"
RegionRussia == "ru"
RegionJapan == "jp"
RegionChina == "cn"
RegionKorea == "kr"
RegionTaiwan == "tw"
RegionUSA == "us"
RegionCanada == "ca"
RegionBrazil == "br"
RegionMexico == "mex"
RegionChile == "cl"
RegionPeru == "pe"
RegionAustralia == "au"
RegionNewZealand == "nz"
RegionIsrael == "il"
RegionTurkey == "tr"
RegionKuwait == "kw"
RegionUAE == "ae"
RegionSouthAfrica == "za"

\* the declared regions
DeclaredRegions ==
    { RegionUnknown,
      RegionWorld,
      RegionEurope,
      RegionAsia,
      RegionAmerica,
      RegionOceania,
      RegionMiddleEast,
      RegionAfrica,
      RegionGermany,
      RegionFrance,
      RegionUK,
      RegionSpain,
      RegionItaly,
      RegionNetherlands,
      RegionSweden,
      RegionDenmark,
      RegionFinland,
      RegionNorway,
      RegionPortugal,
      RegionPoland,
      RegionCzech,
      RegionHungary,
      RegionSlovakia,
      RegionBulgaria,
      RegionGreece,
      RegionRussia,
      RegionJapan,
      RegionChina,
      RegionKorea,
      RegionTaiwan,
      RegionUSA,
      RegionCanada,
      RegionBrazil,
      RegionMexico,
      RegionChile,
      RegionPeru,
      RegionAustralia,
      RegionNewZealand,
      RegionIsrael,
      RegionTurkey,
      RegionKuwait,
      RegionUAE,
      RegionSouthAfrica }

\* a Region is a string: the declared ones and one that is not declared
RegionValues == DeclaredRegions \cup {"xx"}

regionParents ==
    (RegionEurope :> RegionWorld)
    @@ (RegionAsia :> RegionWorld)
    @@ (RegionAmerica :> RegionWorld)
    @@ (RegionOceania :> RegionWorld)
    @@ (RegionMiddleEast :> RegionWorld)
    @@ (RegionAfrica :> RegionWorld)
    @@ (RegionGermany :> RegionEurope)
    @@ (RegionFrance :> RegionEurope)
    @@ (RegionUK :> RegionEurope)
    @@ (RegionSpain :> RegionEurope)
    @@ (RegionItaly :> RegionEurope)
    @@ (RegionNetherlands :> RegionEurope)
    @@ (RegionSweden :> RegionEurope)
    @@ (RegionDenmark :> RegionEurope)
    @@ (RegionFinland :> RegionEurope)
    @@ (RegionNorway :> RegionEurope)
    @@ (RegionPortugal :> RegionEurope)
    @@ (RegionPoland :> RegionEurope)
    @@ (RegionCzech :> RegionEurope)
    @@ (RegionHungary :> RegionEurope)
    @@ (RegionSlovakia :> RegionEurope)
    @@ (RegionBulgaria :> RegionEurope)
    @@ (RegionGreece :> RegionEurope)
    @@ (RegionRussia :> RegionEurope)
    @@ (RegionJapan :> RegionAsia)
    @@ (RegionChina :> RegionAsia)
    @@ (RegionKorea :> RegionAsia)
    @@ (RegionTaiwan :> RegionAsia)
    @@ (RegionUSA :> RegionAmerica)
    @@ (RegionCanada :> RegionAmerica)
    @@ (RegionBrazil :> RegionAmerica)
    @@ (RegionMexico :> RegionAmerica)
    @@ (RegionChile :> RegionAmerica)
    @@ (RegionPeru :> RegionAmerica)
    @@ (RegionAustralia :> RegionOceania)
    @@ (RegionNewZealand :> RegionOceania)
    @@ (RegionIsrael :> RegionMiddleEast)
    @@ (RegionTurkey :> RegionMiddleEast)
    @@ (RegionKuwait :> RegionMiddleEast)
    @@ (RegionUAE :> RegionMiddleEast)
    @@ (RegionSouthAfrica :> RegionAfrica)

ParentMutWorld(r) == IF r \in DOMAIN regionParents THEN RegionWorld ELSE RegionUnknown

Parent(r) == IF r \in DOMAIN regionParents THEN regionParents[r] ELSE RegionUnknown

\* the loop of Ancestors from p on; a nil slice is the empty sequence
RECURSIVE ancestorsFrom(_)
ancestorsFrom(p) ==
    IF p # RegionUnknown THEN <<p>> \o ancestorsFrom(Parent(p)) ELSE <<>>

Ancestors(r) == ancestorsFrom(Parent(r))

\* the loop of IsAncestorOf from p on, dist hops so far
RECURSIVE isAncestorFrom(_, _, _)
isAncestorFrom(r, p, dist) ==
    IF p # RegionUnknown
    THEN IF p = r THEN [is |-> TRUE, dist |-> dist + 1]
         ELSE isAncestorFrom(r, Parent(p), dist + 1)
    ELSE [is |-> FALSE, dist |-> -1]

IsAncestorOf(r, other) == isAncestorFrom(r, Parent(other), 0)

InitRegion ==
    /\ regCall = None /\ regRes = None
    /\ IdleExcept("region")

CallAncestors ==
    /\ \E r \in RegionValues :
         /\ regCall' = [op |-> "Ancestors", r |-> r, other |-> r]
         /\ regRes' = [ancestors |-> Ancestors(r)]
    /\ UNCHANGED notRegVars

CallIsAncestorOf ==
    /\ \E r \in RegionValues, other \in RegionValues :
         /\ regCall' = [op |-> "IsAncestorOf", r |-> r, other |-> other]
         /\ regRes' = [ancestors |-> <<>>, answer |-> IsAncestorOf(r, other)]
    /\ UNCHANGED notRegVars

NextRegion == CallAncestors \/ CallIsAncestorOf

SpecRegion == InitRegion /\ [][NextRegion]_vars

\* the top-level (continental) regions: those whose parent is World
TopLevelRegions == { r \in DeclaredRegions : Parent(r) = RegionWorld }

\* a chain of parents from r that ends in World
IsParentChain(r, chain) ==
    /\ Len(chain) >= 1
    /\ chain[1] = Parent(r)
    /\ \A i \in 1..(Len(chain) - 1) : chain[i + 1] = Parent(chain[i])
    /\ chain[Len(chain)] = RegionWorld

-----------------------------------------------------------------------------
(* SpecNes: ParseNES, parseNES20, parseINES, calculateNES20RAMSize *)

nesHeaderSize == 16
nesMagic == <<78, 69, 83, 26>>

\* a & b on bytes
RECURSIVE BitAnd(_, _)
BitAnd(a, b) ==
    IF a = 0 \/ b = 0 THEN 0
    ELSE (a % 2) * (b % 2) + 2 * BitAnd(a \div 2, b \div 2)

\* a | b where a and b share no set bit
BitOr(a, b) == a + b - BitAnd(a, b)

\* a >> n
Shr(a, n) == a \div Pow2(n)

calculateNES20ROMSize(lsb, msb, unit) ==
    IF msb < 15 THEN BitOr(msb * 256, lsb) * unit
    ELSE Pow2(Shr(lsb, 2)) * (BitAnd(lsb, 3) * 2 + 1)

calculateNES20RAMSizeMutHalf(shiftCount) ==
    IF shiftCount = 0 THEN 0 ELSE 64 * Pow2(shiftCount - 1)

calculateNES20RAMSize(shiftCount) ==
    IF shiftCount = 0 THEN 0 ELSE 64 * Pow2(shiftCount)

\* parseNES20; header[i] of the code is header[i + 1] here
parseNES20(header, info) ==
    LET flags6 == header[7]
        flags7 == header[8]
        byte8 == header[9]
        byte9 == header[10]
        byte10 == header[11]
        byte11 == header[12]
        byte12 == header[13]
        byte13 == header[14]
        byte14 == header[15]
        byte15 == header[16]
    IN [info EXCEPT
          !.Mapper = BitOr(BitOr(BitAnd(byte8, 15) * 256, BitAnd(flags7, 240)),
                           BitAnd(Shr(flags6, 4), 15)),
          !.Submapper = Shr(byte8, 4),
          !.PRGROMSize = calculateNES20ROMSize(header[5], BitAnd(byte9, 15), 16 * 1024),
          !.CHRROMSize = calculateNES20ROMSize(header[6], BitAnd(Shr(byte9, 4), 15), 8 * 1024),
          !.PRGRAMSize = calculateNES20RAMSize(BitAnd(byte10, 15)),
          !.PRGNVRAMSize = calculateNES20RAMSize(BitAnd(Shr(byte10, 4), 15)),
          !.CHRRAMSize = calculateNES20RAMSize(BitAnd(byte11, 15)),
          !.CHRNVRAMSize = calculateNES20RAMSize(BitAnd(Shr(byte11, 4), 15)),
          !.TimingMode = BitAnd(byte12, 3),
          !.VsPPUType = IF info.ConsoleType = 1 THEN BitAnd(byte13, 15) ELSE 0,
          !.VsHardwareType = IF info.ConsoleType = 1 THEN BitAnd(Shr(byte13, 4), 15) ELSE 0,
          !.ExtendedConsoleType = IF info.ConsoleType = 3 THEN BitAnd(byte13, 15) ELSE 0,
          !.MiscROMs = BitAnd(byte14, 3),
          !.ExpansionDevice = BitAnd(byte15, 63)]

parseINES(header, info) ==
    [info EXCEPT
       !.Mapper = BitOr(BitAnd(header[8], 240), BitAnd(Shr(header[7], 4), 15)),
       !.PRGROMSize = header[5] * 16 * 1024,
       !.CHRROMSize = header[6] * 8 * 1024,
       !.PRGRAMSize = (IF header[9] = 0 THEN 1 ELSE header[9]) * 8 * 1024,
       !.TimingMode = IF BitAnd(header[10], 1) # 0 THEN 1 ELSE 0]

ParseNES(f) ==
    IF Len(f.bytes) < nesHeaderSize THEN Err("file too small for NES header")
    ELSE IF ~f.readOk THEN Err("failed to read NES header")
    ELSE LET header == SubSeq(f.bytes, 1, nesHeaderSize) IN
         IF SubSeq(header, 1, 4) # nesMagic THEN Err("not a valid NES ROM: magic mismatch")
         ELSE LET flags6 == header[7]
                  flags7 == header[8]
                  isNES20 == BitAnd(flags7, 12) = 8
                  info == [PRGROMSize |-> 0, CHRROMSize |-> 0, PRGRAMSize |-> 0,
                           PRGNVRAMSize |-> 0, CHRRAMSize |-> 0, CHRNVRAMSize |-> 0,
                           Mapper |-> 0, Submapper |-> 0,
                           Mirroring |-> BitAnd(flags6, 1),
                           FourScreen |-> BitAnd(flags6, 8) # 0,
                           HasBattery |-> BitAnd(flags6, 2) # 0,
                           HasTrainer |-> BitAnd(flags6, 4) # 0,
                           ConsoleType |-> BitAnd(flags7, 3),
                           TimingMode |-> 0, ExpansionDevice |-> 0,
                           VsPPUType |-> 0, VsHardwareType |-> 0,
                           ExtendedConsoleType |-> 0, MiscROMs |-> 0,
                           IsNES20 |-> isNES20]
              IN [ok |-> TRUE,
                  info |-> IF isNES20 THEN parseNES20(header, info)
                           ELSE parseINES(header, info)]

\* headers: the magic (or not), the ROM sizes, flags 6 and 7, bytes 8 and 9,
\* every value of byte 10, byte 11 equal to byte 10 or its complement
NesHeaders ==
    { magic \o <<2, 1, flags6, flags7, 33, byte9, byte10, byte11, 2, 37, 1, 65>> :
        magic \in {nesMagic, <<78, 69, 83, 0>>},
        flags6 \in {0, 31},
        flags7 \in {0, 8, 9, 251},
        byte9 \in {0, 241},
        byte10 \in 0..255,
        byte11 \in {0} }

InitNes ==
    /\ \E h \in NesHeaders, readOk \in BOOLEAN, whole \in BOOLEAN :
       \E byte11 \in {h[11], 255 - h[11]} :
         nesFile = [bytes |-> IF whole THEN [h EXCEPT ![12] = byte11]
                              ELSE SubSeq(h, 1, nesHeaderSize - 1),
                    readOk |-> readOk]
    /\ nesRes = None
    /\ IdleExcept("nes")

CallParseNES ==
    /\ nesRes = None
    /\ nesRes' = ParseNES(nesFile)
    /\ UNCHANGED <<nesFile, notNesVars>>

NextNes == CallParseNES

SpecNes == InitNes /\ [][NextNes]_vars

\* ParseNES took the file for NES 2.0
ParsedNES20 == nesRes # None /\ nesRes.ok /\ nesRes.info.IsNES20

\* the low and the high nibble of header byte i (counted from 0)
LowNibble(i) == nesFile.bytes[i + 1] % 16
HighNibble(i) == nesFile.bytes[i + 1] \div 16

\* C21 as stated: each of the four RAM sizes is 64 << shift for all 16 values
\* of its nibble.
C21_RamSizeIsShiftFor16 ==
    ParsedNES20 =>
        /\ nesRes.info.PRGRAMSize = 64 * (2 ^ LowNibble(10))
        /\ nesRes.info.PRGNVRAMSize = 64 * (2 ^ HighNibble(10))
        /\ nesRes.info.CHRRAMSize = 64 * (2 ^ LowNibble(11))
        /\ nesRes.info.CHRNVRAMSize = 64 * (2 ^ HighNibble(11))

\* the size a shift count stands for: none for 0, 64 << shift for 1..15
RamSizeOf(shift) == IF shift = 0 THEN 0 ELSE 64 * (2 ^ shift)

\* C21 amended: each of the four RAM sizes is 64 << shift for the 15 non-zero
\* values of its nibble and 0 for the nibble 0.
C21_RamSizeIsShiftOrZero ==
    ParsedNES20 =>
        /\ nesRes.info.PRGRAMSize = RamSizeOf(LowNibble(10))
        /\ nesRes.info.PRGNVRAMSize = RamSizeOf(HighNibble(10))
        /\ nesRes.info.CHRRAMSize = RamSizeOf(LowNibble(11))
        /\ nesRes.info.CHRNVRAMSize = RamSizeOf(HighNibble(11))

\* C21 witness: byte 10 = 0xEF and byte 11 = 0x10 gave 64 << 15, 64 << 14, 0, 128
C21_Witness ==
    /\ ParsedNES20
    /\ nesFile.bytes[11] = 239 /\ nesFile.bytes[12] = 16
    /\ nesRes.info.PRGRAMSize = 2097152
    /\ nesRes.info.PRGNVRAMSize = 1048576
    /\ nesRes.info.CHRRAMSize = 0
    /\ nesRes.info.CHRNVRAMSize = 128

-----------------------------------------------------------------------------
(* SpecConc: goroutines in Reader.readHunk on one Reader, step by step *)

Threads == 1..MaxThreads

\* the hunk map of the Reader: raw hunks up to the cap of the cache, then a
\* Zstd hunk, a self-reference to it, and another Zstd hunk (hunks count from 0)
ConcEntries ==
    [i \in 1..(hunkCacheCap + 2) |->
        IF i < hunkCacheCap THEN [compression |-> compressionNone, ref |-> 0]
        ELSE IF i = hunkCacheCap + 1
        THEN [compression |-> compressionSelf, ref |-> hunkCacheCap - 1]
        ELSE [compression |-> compressionType0, ref |-> 0]]

\* the hunks the goroutines ask for: the last raw one (cached or not), the
\* three at the end of the map, one past the end
ConcHunks == (hunkCacheCap - 2)..(hunkCacheCap + 2)

\* the hunk whose stored bytes are the content of hunk h
RECURSIVE ContentOf(_)
ContentOf(h) ==
    IF ConcEntries[h + 1].compression = compressionSelf
    THEN ContentOf(ConcEntries[h + 1].ref)
    ELSE h

\* buffers are named <<goroutine, call depth>>; <<0, h>> names the buffer
\* an earlier sequential read of hunk h left in the cache
WarmBuffer(h) == <<0, h>>

\* sync.RWMutex: RLock waits for the writer, Lock for the writer and readers
canRLock(mu) == mu.writer = 0

canLockMutFree(mu) == TRUE

canLock(mu) == mu.writer = 0 /\ mu.readers = {}

\* the copy a self-reference takes of its referent's bytes
selfCopyMutAlias(own, referent) == referent

selfCopy(own, referent) == own

Frame(h) == [hunk |-> h, pc |-> "rlock", data |-> <<>>, room |-> FALSE, sub |-> None]

TopFrame(t) == cthr[t].stack[Len(cthr[t].stack)]

\* the goroutine with its top frame replaced
WithTop(t, f) == [cthr[t] EXCEPT !.stack[Len(cthr[t].stack)] = f]

\* the goroutine after its top call returned res
Returned(t, res) ==
    LET rest == SubSeq(cthr[t].stack, 1, Len(cthr[t].stack) - 1) IN
    IF rest = <<>> THEN [stack |-> <<>>, ret |-> res]
    ELSE [stack |-> [rest EXCEPT ![Len(rest)].sub = res], ret |-> None]

OkBuffer(buf, hit) == [ok |-> TRUE, buf |-> buf, hit |-> hit]

InitConc ==
    /\ \E warm \in {hunkCacheCap - 2, hunkCacheCap - 1} :
         /\ ccache = [h \in 0..(warm - 1) |-> WarmBuffer(h)]
         /\ cbufs = [b \in {WarmBuffer(h) : h \in 0..(warm - 1)} |->
                        [bytes |-> b[2], filled |-> TRUE]]
    /\ cmu = [readers |-> {}, writer |-> 0]
    /\ cthr = [t \in Threads |-> [stack |-> <<>>, ret |-> None]]
    /\ cdec = {}
    /\ IdleExcept("conc")

\* a goroutine calls readHunk(h)
ConcCall(t) ==
    /\ cthr[t].stack = <<>> /\ cthr[t].ret = None
    /\ \E h \in ConcHunks : cthr' = [cthr EXCEPT ![t].stack = <<Frame(h)>>]
    /\ UNCHANGED <<ccache, cbufs, cmu, cdec, notConcVars>>

\* r.cacheMu.RLock()
ConcRLock(t) ==
    /\ cthr[t].stack # <<>> /\ TopFrame(t).pc = "rlock"
    /\ canRLock(cmu)
    /\ cmu' = [cmu EXCEPT !.readers = @ \cup {t}]
    /\ cthr' = [cthr EXCEPT ![t] = WithTop(t, [TopFrame(t) EXCEPT !.pc = "lookup"])]
    /\ UNCHANGED <<ccache, cbufs, cdec, notConcVars>>

\* the lookup under the read lock, RUnlock, and the return on a hit
ConcLookup(t) ==
    /\ cthr[t].stack # <<>> /\ TopFrame(t).pc = "lookup"
    /\ cmu' = [cmu EXCEPT !.readers = @ \ {t}]
    /\ cthr' = [cthr EXCEPT ![t] =
                  IF TopFrame(t).hunk \in DOMAIN ccache
                  THEN Returned(t, OkBuffer(ccache[TopFrame(t).hunk], TRUE))
                  ELSE WithTop(t, [TopFrame(t) EXCEPT !.pc = "resolve"])]
    /\ UNCHANGED <<ccache, cbufs, cdec, notConcVars>>

\* the range check and the switch on entry.compression
ConcResolve(t) ==
    /\ cthr[t].stack # <<>> /\ TopFrame(t).pc = "resolve"
    /\ LET f == TopFrame(t)
           own == <<t, Len(cthr[t].stack)>>
       IN
       IF f.hunk >= Len(ConcEntries)
       THEN /\ cthr' = [cthr EXCEPT ![t] = Returned(t, Err("hunk out of range"))]
            /\ UNCHANGED <<cbufs, cdec>>
       ELSE LET entry == ConcEntries[f.hunk + 1] IN
            IF entry.compression = compressionNone
            THEN \* data = make([]byte, hunkBytes), not read into yet
                 /\ cbufs' = (own :> [bytes |-> f.hunk, filled |-> FALSE]) @@ cbufs
                 /\ cthr' = [cthr EXCEPT ![t] =
                               WithTop(t, [f EXCEPT !.pc = "read", !.data = own])]
                 /\ UNCHANGED cdec
            ELSE IF entry.compression = compressionType0
            THEN \* the compressed bytes are read, codec.Zstd begins
                 /\ cdec' = cdec \cup {t}
                 /\ cthr' = [cthr EXCEPT ![t] = WithTop(t, [f EXCEPT !.pc = "decode"])]
                 /\ UNCHANGED cbufs
            ELSE IF entry.compression = compressionSelf
            THEN /\ cthr' = [cthr EXCEPT ![t] =
                               IF isForwardReference(entry.ref, f.hunk)
                               THEN Returned(t, Err("forward reference"))
                               ELSE [WithTop(t, [f EXCEPT !.pc = "copy"]) EXCEPT
                                       !.stack = Append(@, Frame(entry.ref))]]
                 /\ UNCHANGED <<cbufs, cdec>>
            ELSE /\ cthr' = [cthr EXCEPT ![t] =
                               Returned(t, Err("parent or unknown compression"))]
                 /\ UNCHANGED <<cbufs, cdec>>
    /\ UNCHANGED <<ccache, cmu, notConcVars>>

\* r.file.ReadAt(data, entry.offset) of an uncompressed hunk
ConcRead(t) ==
    /\ cthr[t].stack # <<>> /\ TopFrame(t).pc = "read"
    /\ \E readOk \in BOOLEAN :
         IF readOk
         THEN /\ cbufs' = [cbufs EXCEPT ![TopFrame(t).data].filled = TRUE]
              /\ cthr' = [cthr EXCEPT ![t] = WithTop(t, [TopFrame(t) EXCEPT !.pc = "lock"])]
         ELSE /\ cthr' = [cthr EXCEPT ![t] = Returned(t, Err("read uncompressed hunk"))]
              /\ UNCHANGED cbufs
    /\ UNCHANGED <<ccache, cmu, cdec, notConcVars>>

\* zstdDecoder.DecodeAll returns its result
ConcDecode(t) ==
    /\ cthr[t].stack # <<>> /\ TopFrame(t).pc = "decode"
    /\ cdec' = cdec \ {t}
    /\ LET own == <<t, Len(cthr[t].stack)>> IN
       /\ cbufs' = (own :> [bytes |-> TopFrame(t).hunk, filled |-> TRUE]) @@ cbufs
       /\ cthr' = [cthr EXCEPT ![t] =
                     WithTop(t, [TopFrame(t) EXCEPT !.pc = "lock", !.data = own])]
    /\ UNCHANGED <<ccache, cmu, notConcVars>>

\* after r.readHunk(refHunk): the error, or data = append([]byte(nil), data...)
ConcCopy(t) ==
    /\ cthr[t].stack # <<>> /\ TopFrame(t).pc = "copy" /\ TopFrame(t).sub # None
    /\ LET f == TopFrame(t)
           own == <<t, Len(cthr[t].stack)>>
       IN
       IF ~f.sub.ok
       THEN /\ cthr' = [cthr EXCEPT ![t] = Returned(t, Err("read self-referenced hunk"))]
            /\ UNCHANGED cbufs
       ELSE /\ cbufs' = (own :> [bytes |-> cbufs[f.sub.buf].bytes,
                                 filled |-> cbufs[f.sub.buf].filled]) @@ cbufs
            /\ cthr' = [cthr EXCEPT ![t] =
                          WithTop(t, [f EXCEPT !.pc = "lock",
                                               !.data = selfCopy(own, f.sub.buf)])]
    /\ UNCHANGED <<ccache, cmu, cdec, notConcVars>>

\* r.cacheMu.Lock()
ConcLock(t) ==
    /\ cthr[t].stack # <<>> /\ TopFrame(t).pc = "lock"
    /\ canLock(cmu)
    /\ cmu' = [cmu EXCEPT !.writer = t]
    /\ cthr' = [cthr EXCEPT ![t] = WithTop(t, [TopFrame(t) EXCEPT !.pc = "check"])]
    /\ UNCHANGED <<ccache, cbufs, cdec, notConcVars>>

\* len(r.hunkCache) < 32
ConcCheck(t) ==
    /\ cthr[t].stack # <<>> /\ TopFrame(t).pc = "check"
    /\ cthr' = [cthr EXCEPT ![t] =
                  WithTop(t, [TopFrame(t) EXCEPT
                                !.pc = "store",
                                !.room = Cardinality(DOMAIN ccache) < hunkCacheCap])]
    /\ UNCHANGED <<ccache, cbufs, cmu, cdec, notConcVars>>

\* r.hunkCache[hunkNum] = data, Unlock, return data
ConcStore(t) ==
    /\ cthr[t].stack # <<>> /\ TopFrame(t).pc = "store"
    /\ ccache' = IF TopFrame(t).room
                 THEN (TopFrame(t).hunk :> TopFrame(t).data) @@ ccache
                 ELSE ccache
    /\ cmu' = [cmu EXCEPT !.writer = 0]
    /\ cthr' = [cthr EXCEPT ![t] = Returned(t, OkBuffer(TopFrame(t).data, FALSE))]
    /\ UNCHANGED <<cbufs, cdec, notConcVars>>

NextConc ==
    \E t \in Threads :
        \/ ConcCall(t)
        \/ ConcRLock(t)
        \/ ConcLookup(t)
        \/ ConcResolve(t)
        \/ ConcRead(t)
        \/ ConcDecode(t)
        \/ ConcCopy(t)
        \/ ConcLock(t)
        \/ ConcCheck(t)
        \/ ConcStore(t)

SpecConc == InitConc /\ [][NextConc]_vars

\* a buffer holds all the bytes of hunk h
CompleteFor(buf, h) == cbufs[buf].filled /\ cbufs[buf].bytes = ContentOf(h)

\* C22: under every interleaving the cache holds at most 32 entries, every
\* cached buffer is complete, and a goroutine that found its hunk in the cache
\* was given a complete buffer.
C22_CacheCappedAndComplete ==
    /\ Cardinality(DOMAIN ccache) <= 32
    /\ \A h \in DOMAIN ccache : CompleteFor(ccache[h], h)
    /\ \A t \in Threads :
         (cthr[t].ret # None /\ cthr[t].ret.ok /\ cthr[t].ret.hit) =>
             \E h \in DOMAIN ccache : CompleteFor(cthr[t].ret.buf, h)

\* C22 witness: the cache is full, and a goroutine was served from the cache
\* the Zstd hunk that another goroutine had put there
C22_Witness ==
    /\ Cardinality(DOMAIN ccache) = 32
    /\ \E t \in Threads :
         /\ cthr[t].ret # None /\ cthr[t].ret.ok /\ cthr[t].ret.hit
         /\ cthr[t].ret.buf[1] \notin {0, t}
         /\ cbufs[cthr[t].ret.buf].filled

\* C23: no two cache entries share a buffer, and the buffer readHunk built for
\* a self-reference is not the cached buffer of any other hunk, its referent
\* included, though it holds the same bytes.
C23_NoSharedBuffers ==
    /\ \A h1, h2 \in DOMAIN ccache : h1 # h2 => ccache[h1] # ccache[h2]
    /\ \A t \in Threads :
         (cthr[t].stack # <<>> /\ TopFrame(t).pc \in {"lock", "check", "store"}) =>
             \A h \in DOMAIN ccache :
                 h # TopFrame(t).hunk => ccache[h] # TopFrame(t).data

\* C23 witness: a self-reference and its referent are both cached, in two
\* buffers with the same bytes
C23_Witness ==
    /\ hunkCacheCap \in DOMAIN ccache /\ (hunkCacheCap - 1) \in DOMAIN ccache
    /\ ccache[hunkCacheCap] # ccache[hunkCacheCap - 1]
    /\ cbufs[ccache[hunkCacheCap]].bytes = cbufs[ccache[hunkCacheCap - 1]].bytes

\* C24: at most one goroutine at a time is inside zstdDecoder.DecodeAll.
C24_DecoderNeverShared == Cardinality(cdec) <= 1

-----------------------------------------------------------------------------
(* SpecEntries: decodeMapEntries, phase 1 (compression types) and phase 2 *)

compressionType3 == 3
compressionRLESmall == 7
compressionRLELarge == 8
compressionSelf0 == 9
compressionSelf1 == 10
compressionParentSelf == 11
compressionParent0 == 12
compressionParent1 == 13

\* huffman.Decode(br): the next symbol of the compressed map, an error when
\* the data is used up
huffmanDecode(symbols, pos) ==
    IF pos > Len(symbols) THEN [ok |-> FALSE] ELSE [ok |-> TRUE, val |-> symbols[pos]]

\* br.ReadBits(n) in phase 2: the next field of the compressed map, an error
\* when the data is used up; the fields repeat a pattern up to their count
readBits(fields, pos) ==
    IF pos > fields.count THEN [ok |-> FALSE]
    ELSE [ok |-> TRUE, val |-> fields.pattern[((pos - 1) % Len(fields.pattern)) + 1]]

\* repCount after an RLE-small escape with the symbol count
rleSmallCountMutShort(count) == 1 + count

rleSmallCount(count) == 2 + count

\* repCount after an RLE-large escape with the symbols high and low
rleLargeCount(high, low) == 2 + 16 + (high * 16) + low

\* phase 1 from hunk hunkNum (counted from 0) on; at[h] is the position of
\* the symbol decoded at hunk h, 0 when none was
RECURSIVE typesFrom(_, _, _, _, _, _, _, _)
typesFrom(symbols, numHunks, hunkNum, pos, lastComp, repCount, types, at) ==
    IF hunkNum >= numHunks THEN [ok |-> TRUE, types |-> types, at |-> at, pos |-> pos]
    ELSE IF repCount > 0
    THEN typesFrom(symbols, numHunks, hunkNum + 1, pos, lastComp, repCount - 1,
                   Append(types, lastComp), Append(at, 0))
    ELSE LET val == huffmanDecode(symbols, pos) IN
         IF ~val.ok THEN Err("failed to decode compression type")
         ELSE IF val.val = compressionRLESmall
         THEN LET count == huffmanDecode(symbols, pos + 1) IN
              IF ~count.ok THEN Err("failed to read RLE small count")
              ELSE typesFrom(symbols, numHunks, hunkNum + 1, pos + 2, lastComp,
                             rleSmallCount(count.val),
                             Append(types, lastComp), Append(at, pos))
         ELSE IF val.val = compressionRLELarge
         THEN LET high == huffmanDecode(symbols, pos + 1)
                  low == huffmanDecode(symbols, pos + 2)
              IN
              IF ~high.ok THEN Err("failed to read RLE large high")
              ELSE IF ~low.ok THEN Err("failed to read RLE large low")
              ELSE typesFrom(symbols, numHunks, hunkNum + 1, pos + 3, lastComp,
                             rleLargeCount(high.val, low.val),
                             Append(types, lastComp), Append(at, pos))
         ELSE typesFrom(symbols, numHunks, hunkNum + 1, pos + 1, val.val, 0,
                        Append(types, val.val), Append(at, pos))

\* curOffset += length
advanceMutStay(curOffset, length) == curOffset

advance(curOffset, length) == curOffset + length

MapEntry(compression, length, offset, crc) ==
    [compression |-> compression, length |-> length, offset |-> offset, crc16 |-> crc]

\* phase 2 from hunk hunkNum (counted from 0) on; st holds curOffset,
\* lastSelf, lastParent and the position in the fields
RECURSIVE entriesFrom(_, _, _, _, _, _)
entriesFrom(types, fields, header, hunkNum, st, done) ==
    IF hunkNum >= Len(types) THEN [ok |-> TRUE, entries |-> done]
    ELSE LET compType == types[hunkNum + 1]
             f1 == readBits(fields, st.pos)
             f2 == readBits(fields, st.pos + 1)
         IN
         IF compType \in compressionType0..compressionType3
         THEN IF ~f1.ok THEN Err("failed to read length")
              ELSE IF ~f2.ok THEN Err("failed to read CRC")
              ELSE entriesFrom(types, fields, header, hunkNum + 1,
                       [st EXCEPT !.pos = @ + 2,
                                  !.curOffset = advance(st.curOffset, f1.val)],
                       Append(done, MapEntry(compType, f1.val, st.curOffset, f2.val)))
         ELSE IF compType = compressionNone
         THEN IF ~f1.ok THEN Err("failed to read CRC")
              ELSE entriesFrom(types, fields, header, hunkNum + 1,
                       [st EXCEPT !.pos = @ + 1,
                                  !.curOffset = advance(st.curOffset, header.HunkBytes)],
                       Append(done, MapEntry(compressionNone, header.HunkBytes,
                                                st.curOffset, f1.val)))
         ELSE IF compType = compressionSelf
         THEN IF ~f1.ok THEN Err("failed to read self offset")
              ELSE entriesFrom(types, fields, header, hunkNum + 1,
                       [st EXCEPT !.pos = @ + 1, !.lastSelf = f1.val],
                       Append(done, MapEntry(compressionSelf, 0, f1.val, 0)))
         ELSE IF compType = compressionSelf0
         THEN entriesFrom(types, fields, header, hunkNum + 1, st,
                       Append(done, MapEntry(compressionSelf, 0, st.lastSelf, 0)))
         ELSE IF compType = compressionSelf1
         THEN entriesFrom(types, fields, header, hunkNum + 1,
                       [st EXCEPT !.lastSelf = @ + 1],
                       Append(done, MapEntry(compressionSelf, 0, st.lastSelf + 1, 0)))
         ELSE IF compType = compressionParent
         THEN IF ~f1.ok THEN Err("failed to read parent offset")
              ELSE entriesFrom(types, fields, header, hunkNum + 1,
                       [st EXCEPT !.pos = @ + 1, !.lastParent = f1.val],
                       Append(done, MapEntry(compressionParent, 0, f1.val, 0)))
         ELSE IF compType = compressionParent0
         THEN entriesFrom(types, fields, header, hunkNum + 1, st,
                       Append(done, MapEntry(compressionParent, 0, st.lastParent, 0)))
         ELSE IF compType = compressionParent1
         THEN IF header.UnitBytes = 0 THEN Err("panic: integer divide by zero")
              ELSE LET offset == st.lastParent + (header.HunkBytes \div header.UnitBytes) IN
                   entriesFrom(types, fields, header, hunkNum + 1,
                       [st EXCEPT !.lastParent = offset],
                       Append(done, MapEntry(compressionParent, 0, offset, 0)))
         ELSE IF compType = compressionParentSelf
         THEN IF header.UnitBytes = 0 THEN Err("panic: integer divide by zero")
              ELSE LET offset == (hunkNum * header.HunkBytes) \div header.UnitBytes IN
                   entriesFrom(types, fields, header, hunkNum + 1,
                       [st EXCEPT !.lastParent = offset],
                       Append(done, MapEntry(compressionParent, 0, offset, 0)))
         ELSE Err("unknown compression type")

decodeMapEntries(symbols, fields, header, firstOffset) ==
    LET p1 == typesFrom(symbols, header.TotalHunks, 0, 1, 0, 0, <<>>, <<>>) IN
    IF ~p1.ok THEN p1
    ELSE LET p2 == entriesFrom(p1.types, fields, header, 0,
                               [pos |-> 1, curOffset |-> firstOffset,
                                lastSelf |-> 0, lastParent |-> 0], <<>>)
         IN IF ~p2.ok THEN p2
            ELSE [ok |-> TRUE, entries |-> p2.entries, types |-> p1.types, at |-> p1.at]

\* compressed maps with runs: few symbols, enough fields for every hunk
RleInputs ==
    { [symbols |-> symbols,
       fields |-> [pattern |-> <<3, 1>>, count |-> 100],
       header |-> [TotalHunks |-> hunks, HunkBytes |-> 4, UnitBytes |-> 2],
       firstOffset |-> 10] :
        symbols \in SeqsUpTo({0, 1, 5, compressionRLESmall, compressionRLELarge},
                             MaxSymbols),
        hunks \in {1, 4, 22, 30} }

\* compressed maps with one symbol per hunk, of every kind, whose fields may
\* run out, for unit sizes 2 and 0
EntryInputs ==
    { [symbols |-> symbols,
       fields |-> [pattern |-> <<3, 1, 2, 0, 5>>, count |-> count],
       header |-> [TotalHunks |-> Len(symbols), HunkBytes |-> 4, UnitBytes |-> unit],
       firstOffset |-> first] :
        symbols \in SeqsUpTo({0, 3, 4, 5, 6, 9, 10, 11, 12, 13, 14}, MaxHunks) \ {<<>>},
        count \in {1, 2, 100},
        unit \in {0, 2},
        first \in {0, 10} }

InitEntries ==
    /\ dmIn \in RleInputs \cup EntryInputs
    /\ dmRes = None
    /\ IdleExcept("entries")

CallDecodeMapEntries ==
    /\ dmRes = None
    /\ dmRes' = decodeMapEntries(dmIn.symbols, dmIn.fields, dmIn.header, dmIn.firstOffset)
    /\ UNCHANGED <<dmIn, notEntriesVars>>

NextEntries == CallDecodeMapEntries

SpecEntries == InitEntries /\ [][NextEntries]_vars

\* decodeMapEntries returned entries
Decoded == dmRes # None /\ dmRes.ok

\* hunks h (counted from 1) at which a symbol was decoded, and that symbol
DecodedAt(h) == dmRes.at[h] # 0
SymbolAt(h) == dmIn.symbols[dmRes.at[h]]
IsEscape(h) == DecodedAt(h) /\ SymbolAt(h) \in {7, 8}

\* the literal type in force at hunk h: that of the last literal before it
PreviousLiteral(h) ==
    LET lits == { k \in 1..(h - 1) : DecodedAt(k) /\ ~IsEscape(k) } IN
    IF lits = {} THEN 0
    ELSE SymbolAt(CHOOSE k \in lits : \A j \in lits : j <= k)

\* the number of hunks after an escape hunk h that repeat the type
RunAfter(h) ==
    IF SymbolAt(h) = 7 THEN 2 + dmIn.symbols[dmRes.at[h] + 1]
    ELSE 2 + 16 + (dmIn.symbols[dmRes.at[h] + 1] * 16) + dmIn.symbols[dmRes.at[h] + 2]

\* C25: an escape gives the previous literal type to its own hunk and to the
\* next 2 + c (RLE-small) or 2 + 16 + (hi << 4) + lo (RLE-large) hunks, cut off
\* at the last hunk, with no symbol decoded for those; the hunk after a run
\* decodes the symbol that follows the escape; every other symbol is its
\* hunk's type; there are exactly total-hunks types.
C25_RleRunsRepeatPreviousType ==
    Decoded =>
        LET n == dmIn.header.TotalHunks IN
        /\ Len(dmRes.types) = n
        /\ \A h \in 1..n :
             /\ (DecodedAt(h) /\ ~IsEscape(h)) => dmRes.types[h] = SymbolAt(h)
             /\ IsEscape(h) =>
                  /\ \A k \in h..Min(h + RunAfter(h), n) :
                       /\ dmRes.types[k] = PreviousLiteral(h)
                       /\ k > h => ~DecodedAt(k)
                  /\ h + RunAfter(h) < n =>
                       /\ DecodedAt(h + RunAfter(h) + 1)
                       /\ dmRes.at[h + RunAfter(h) + 1] =
                              dmRes.at[h] + (IF SymbolAt(h) = 7 THEN 2 ELSE 3)
             /\ ~DecodedAt(h) =>
                  \E k \in 1..(h - 1) : IsEscape(k) /\ h <= k + RunAfter(k)

\* C25 witness: type 5, then RLE-large with hi = 0, lo = 1 at hunk 2 of 22:
\* hunks 2..21 repeat type 5 and hunk 22 decodes the next symbol
C25_Witness ==
    /\ Decoded
    /\ dmIn.symbols = <<5, 8, 0, 1, 1>>
    /\ dmIn.header.TotalHunks = 22
    /\ dmRes.types[21] = 5 /\ dmRes.types[22] = 1

\* the stored hunks: those with their own bytes in the file
StoredHunks == { h \in 1..Len(dmRes.entries) : dmRes.entries[h].compression \in 0..4 }

RECURSIVE SumLengths(_)
SumLengths(hs) ==
    IF hs = {} THEN 0
    ELSE LET h == CHOOSE x \in hs : TRUE IN
         dmRes.entries[h].length + SumLengths(hs \ {h})

\* C26: the stored hunks lie one after another from first-block on, a type-4
\* hunk taking hunk-bytes; references leave the cursor alone; every entry is
\* tagged 0..6 (9 and 10 as 5; 11, 12 and 13 as 6); a type outside 0..6 and
\* 9..13 makes the decoding fail.
C26_StoredHunksContiguous ==
    /\ Decoded =>
        /\ \A h \in StoredHunks :
             /\ dmRes.entries[h].offset =
                    dmIn.firstOffset + SumLengths({k \in StoredHunks : k < h})
             /\ dmRes.entries[h].compression = 4 =>
                    dmRes.entries[h].length = dmIn.header.HunkBytes
        /\ \A h \in 1..Len(dmRes.entries) :
             /\ dmRes.entries[h].compression \in 0..6
             /\ dmRes.types[h] \in 0..6 => dmRes.entries[h].compression = dmRes.types[h]
             /\ dmRes.types[h] \in {9, 10} => dmRes.entries[h].compression = 5
             /\ dmRes.types[h] \in {11, 12, 13} => dmRes.entries[h].compression = 6
             /\ dmRes.types[h] \in (0..6) \cup (9..13)
    /\ (dmRes # None /\ dmIn \in EntryInputs /\ \E i \in 1..Len(dmIn.symbols) :
            dmIn.symbols[i] \notin (0..6) \cup (9..13)) => ~dmRes.ok

\* C26 witness: a compressed hunk, a self-reference and an uncompressed hunk;
\* the third starts where the first ends
C26_Witness ==
    /\ Decoded
    /\ dmIn.symbols = <<0, 9, 4>>
    /\ dmIn.firstOffset = 10
    /\ dmRes.entries[1].offset = 10 /\ dmRes.entries[1].length = 3
    /\ dmRes.entries[2].compression = 5
    /\ dmRes.entries[3].offset = 13 /\ dmRes.entries[3].length = 4

-----------------------------------------------------------------------------
(* SpecTracks: parseTrackMetadata, one loop iteration per step *)

\* the metadata entries sit at the offsets 1..MaxMeta; MaxMeta + 1 lies
\* beyond the end of the file
MetaOffsets == 1..MaxMeta
MetaLinks == 0..(MaxMeta + 1)

\* the tracks past this many are not recorded: with MaxMeta entries a list
\* grows longer only on a cycle of links, where the call never returns
MaxTracks == MaxMeta + 1

\* parseTrackMetadataEntry(data): the payload is given by its TRACK, FRAMES
\* and PREGAP fields (0 when absent); a record without track number is
\* rejected
parseTrackMetadataEntry(data) ==
    IF data.TRACK = 0 THEN [ok |-> FALSE]
    ELSE [ok |-> TRUE,
          track |-> [Number |-> data.TRACK, Frames |-> data.FRAMES,
                     Pregap |-> data.PREGAP, startFrame |-> 0]]

\* the second loop: startFrame of each track from the running sum
RECURSIVE startFramesFrom(_, _, _)
startFramesFrom(tracks, i, currentFrame) ==
    IF i > Len(tracks) THEN tracks
    ELSE startFramesFrom([tracks EXCEPT ![i].startFrame = currentFrame], i + 1,
                         currentFrame + tracks[i].Pregap + tracks[i].Frames)

\* the entry at an offset: a tag, a payload and the next offset; the payload
\* of the entry at offset o names track o with o + 1 frames
MetaEntries(o) ==
    { [tag |-> tag,
       data |-> [TRACK |-> number, FRAMES |-> o + 1, PREGAP |-> o % 2],
       next |-> next] :
        tag \in {"CHT2", "GDDD"}, number \in {0, o}, next \in MetaLinks }

MetaAreas ==
    { a \in [MetaOffsets -> UNION { MetaEntries(o) : o \in MetaOffsets }] :
        \A o \in MetaOffsets : a[o] \in MetaEntries(o) }

InitTracks ==
    /\ tmArea \in MetaAreas
    /\ tmMeta \in MetaLinks
    /\ tmPc = "start"
    /\ tmOffset = 0
    /\ tmTracks = <<>>
    /\ tmVisited = <<>>
    /\ tmTick = 0
    /\ tmRes = None
    /\ IdleExcept("tracks")

\* lines 111-125: read the metadata offset; none means no tracks
TmStart ==
    /\ tmPc = "start"
    /\ IF tmMeta = 0
       THEN /\ tmPc' = "done"
            /\ tmRes' = [ok |-> TRUE, tracks |-> <<>>]
            /\ UNCHANGED tmOffset
       ELSE /\ tmPc' = "loop"
            /\ tmOffset' = tmMeta
            /\ UNCHANGED tmRes
    /\ UNCHANGED <<tmArea, tmMeta, tmTracks, tmVisited, tmTick, notTracksVars>>

\* lines 127-159: one iteration of the loop over the entries
TmEntry ==
    /\ tmPc = "loop"
    /\ tmOffset # 0
    /\ tmTick' = 1 - tmTick
    /\ IF tmOffset \notin MetaOffsets
       THEN /\ tmPc' = "done"
            /\ tmRes' = Err("read metadata header")
            /\ UNCHANGED <<tmOffset, tmTracks, tmVisited>>
       ELSE LET entry == tmArea[tmOffset]
                track == parseTrackMetadataEntry(entry.data)
            IN
            /\ tmTracks' = IF entry.tag \in {"CHTR", "CHT2", "CHGD"} /\ track.ok
                              /\ Len(tmTracks) < MaxTracks
                           THEN Append(tmTracks, track.track)
                           ELSE tmTracks
            /\ tmVisited' = IF entry.tag \in {"CHTR", "CHT2", "CHGD"} /\ track.ok
                               /\ Len(tmTracks) < MaxTracks
                            THEN Append(tmVisited, tmOffset)
                            ELSE tmVisited
            /\ tmOffset' = entry.next
            /\ UNCHANGED <<tmPc, tmRes>>
    /\ UNCHANGED <<tmArea, tmMeta, notTracksVars>>

\* lines 161-168: the links ended; assign the start frames and return
TmReturn ==
    /\ tmPc = "loop"
    /\ tmOffset = 0
    /\ tmPc' = "done"
    /\ tmRes' = [ok |-> TRUE, tracks |-> startFramesFrom(tmTracks, 1, 0)]
    /\ UNCHANGED <<tmArea, tmMeta, tmOffset, tmTracks, tmVisited, tmTick, notTracksVars>>

NextTracks == TmStart \/ TmEntry \/ TmReturn

SpecTracks == InitTracks /\ [][NextTracks]_vars

\* the call keeps running while it has a step to take
SpecTracksFair == SpecTracks /\ WF_vars(NextTracks)

\* C27: parseTrackMetadata terminates for every metadata area, also when the
\* next-offset links point backwards or form a cycle.
C27_ParseTerminates == <>(tmRes # None)


RECURSIVE FramesBefore(_, _)
FramesBefore(tracks, k) ==
    IF k <= 1 THEN 0
    ELSE FramesBefore(tracks, k - 1) + tracks[k - 1].Pregap + tracks[k - 1].Frames

\* when parseTrackMetadata returns tracks, they are those of the entries
\* visited, in that order, each starting after the frames of those before it
TracksInOrderOfVisit ==
    (tmRes # None /\ tmRes.ok) =>
        /\ Len(tmRes.tracks) = Len(tmVisited)
        /\ \A k \in 1..Len(tmRes.tracks) :
             /\ tmRes.tracks[k].Number = tmVisited[k]
             /\ tmRes.tracks[k].startFrame = FramesBefore(tmRes.tracks, k)

-----------------------------------------------------------------------------
(* SpecTrackRead: trackReader.ReadAt, one loop iteration per step *)

rawSectorSize == 2352

\* Reader.ReadAt as readSector uses it: the number of bytes it reads of a
\* buffer of size bytes at offset off, up to the end of the logical data
readAtCount(logicalBytes, size, off) ==
    IF off >= logicalBytes THEN 0 ELSE Min(size, logicalBytes - off)

\* readSector(sectorNum): the length of the sector returned (data[:n]), or an
\* error when a hunk of the sector cannot be read
readSector(chd, sectorNum) ==
    IF sectorNum = chd.failSector /\ sectorNum * chd.UnitBytes < chd.LogicalBytes
    THEN Err("read hunk")
    ELSE [ok |-> TRUE,
          len |-> readAtCount(chd.LogicalBytes, chd.UnitBytes, sectorNum * chd.UnitBytes)]

\* the CHDs read: units of 2048, 2352 and 2448 bytes, up to MaxFrames units
\* of logical data, at most one unit unreadable
TrackChds ==
    { [UnitBytes |-> unit, LogicalBytes |-> units * unit, failSector |-> fail] :
        unit \in {2048, rawSectorSize, 2448},
        units \in 0..MaxFrames,
        fail \in (-1)..(MaxFrames - 1) }

\* the tracks read: their frames may extend past the logical data
TrackRanges ==
    { [first |-> first, numSectors |-> frames] :
        first \in {0, 1}, frames \in 0..MaxFrames }

TrackOffsets == {0, 2048, 2100, rawSectorSize, 2 * rawSectorSize}
TrackBufferLens == {0, 1, 304, rawSectorSize, 3000}

InitTrackRead ==
    /\ trChd \in TrackChds
    /\ trTrack \in TrackRanges
    /\ trOff \in TrackOffsets
    /\ trLen \in TrackBufferLens
    /\ trN = 0
    /\ trTick = 0
    /\ trRes = None
    /\ IdleExcept("trackread")

\* lines 52-85: one iteration of the loop
TrIterate ==
    /\ trRes = None
    /\ trN < trLen
    /\ trTick' = 1 - trTick
    /\ LET logicalOffset == trOff + trN
           sector == logicalOffset \div rawSectorSize
           offsetInSector == logicalOffset % rawSectorSize
           actualSector == trTrack.first + sector
           sectorData == readSector(trChd, actualSector)
           endOffset == Min(rawSectorSize, sectorData.len)
           bytesToCopy == Min(endOffset - offsetInSector, trLen - trN)
       IN
       IF sector >= trTrack.numSectors
       THEN /\ trRes' = IF trN > 0 THEN [ok |-> TRUE, n |-> trN]
                        ELSE [ok |-> FALSE, n |-> 0, err |-> "EOF"]
            /\ UNCHANGED trN
       ELSE IF ~sectorData.ok
       THEN /\ trRes' = IF trN > 0 THEN [ok |-> TRUE, n |-> trN]
                        ELSE [ok |-> FALSE, n |-> 0, err |-> sectorData.err]
            /\ UNCHANGED trN
       ELSE IF bytesToCopy > 0 /\ trN < 0
       THEN /\ trRes' = [ok |-> FALSE, n |-> trN, err |-> "panic: slice bounds out of range"]
            /\ UNCHANGED trN
       ELSE /\ trN' = trN + bytesToCopy
            /\ UNCHANGED trRes
    /\ UNCHANGED <<trChd, trTrack, trOff, trLen, notTrackReadVars>>

\* line 87: the buffer is full
TrReturn ==
    /\ trRes = None
    /\ trN >= trLen
    /\ trRes' = [ok |-> TRUE, n |-> trN]
    /\ UNCHANGED <<trChd, trTrack, trOff, trLen, trN, trTick, notTrackReadVars>>

NextTrackRead == TrIterate \/ TrReturn

SpecTrackRead == InitTrackRead /\ [][NextTrackRead]_vars

\* the call keeps running while it has a step to take
SpecTrackReadFair == SpecTrackRead /\ WF_vars(NextTrackRead)

\* C28: trackReader.ReadAt terminates for every offset and buffer length,
\* also when readSector returns an empty or short sector or the unit size is
\* smaller than 2352 bytes.
C28_ReadAtTerminates == <>(trRes # None)

\* the count n never decreases during a call and stays within 0..len(p)
CountInRange == trN \in 0..trLen
CountNeverDecreases == [][trN' >= trN]_vars

-----------------------------------------------------------------------------
(* SpecCodec: readHunk over decompressHunk and the codecs, by buffer length *)

\* the codec tags, by their four characters
CodecNone == "none"
CodecZlib == "zlib"
CodecLZMA == "lzma"
CodecHuff == "huff"
CodecFLAC == "flac"
CodecZstd == "zstd"
CodecCDZlib == "cdzl"
CodecCDLZMA == "cdlz"
CodecCDFLAC == "cdfl"
CodecCDZstd == "cdzs"

cdMaxSectorData == 2352
cdMaxSubcodeData == 96
cdFrameSize == 2448

\* A compressed stream is given by what decoding it yields: `decoded` bytes
\* and then the end of the stream ("eof"), the end of the input in the middle
\* of the stream ("truncated") or invalid input ("corrupt").

\* io.ReadFull(r, result) with len(result) = size on such a stream
readFull(stream, size) ==
    IF stream.decoded >= size THEN [n |-> size, err |-> "nil"]
    ELSE [n |-> stream.decoded,
          err |-> IF stream.end = "corrupt" THEN "corrupt"
                  ELSE IF stream.end = "truncated" THEN "ErrUnexpectedEOF"
                  ELSE IF stream.decoded = 0 THEN "EOF" ELSE "ErrUnexpectedEOF"]

\* the errors of io.ReadFull that Zlib and LZMA take for success
tolerated == {"nil", "EOF", "ErrUnexpectedEOF"}

\* codec.Zlib: the length of the result, or an error
Zlib(stream, outputSize) ==
    LET r == readFull(stream, outputSize) IN
    IF r.err \notin tolerated THEN Err(r.err) ELSE [ok |-> TRUE, len |-> r.n]

\* codec.LZMA
LZMA(stream, outputSize) ==
    IF stream.empty THEN Err("LZMA data empty")
    ELSE LET r == readFull(stream, outputSize) IN
         IF r.err \notin tolerated THEN Err(r.err) ELSE [ok |-> TRUE, len |-> r.n]

\* codec.Zstd: DecodeAll appends the whole content of the frame to an empty
\* buffer of capacity outputSize
Zstd(stream, outputSize) ==
    IF stream.end # "eof" THEN Err("zstd") ELSE [ok |-> TRUE, len |-> stream.decoded]

\* codec.Huffman: outputSize symbols are decoded into make([]byte, outputSize)
Huffman(stream, outputSize) ==
    IF stream.decoded < outputSize THEN Err("huffman decode")
    ELSE [ok |-> TRUE, len |-> outputSize]

\* decompressCDCodec: the result is make([]byte, hunkBytes)
decompressCDCodec(data, hunkBytes, base) ==
    LET frames == hunkBytes \div cdFrameSize
        baseData == IF base = "zlib" THEN Zlib(data.stream, frames * cdMaxSectorData)
                    ELSE IF base = "lzma" THEN LZMA(data.stream, frames * cdMaxSectorData)
                    ELSE Zstd(data.stream, frames * cdMaxSectorData)
        subcodeData == IF data.sub.empty THEN [ok |-> TRUE, len |-> frames * cdMaxSubcodeData]
                       ELSE Zlib(data.sub, frames * cdMaxSubcodeData)
    IN
    IF frames = 0 THEN Err("CD codec: invalid hunk size")
    ELSE IF ~data.framed THEN Err("CD codec: data too short")
    ELSE IF ~baseData.ok THEN Err("CD codec base decompress")
    ELSE IF ~subcodeData.ok THEN Err("CD codec subcode decompress")
    ELSE [ok |-> TRUE, len |-> hunkBytes]

\* decompressHunk(compressedData, codecID, hunkBytes): the length of the
\* hunk, or an error
decompressHunk(data, codecID, hunkBytes) ==
    IF codecID = CodecNone THEN [ok |-> TRUE, len |-> hunkBytes]
    ELSE IF codecID = CodecZlib THEN Zlib(data.stream, hunkBytes)
    ELSE IF codecID = CodecLZMA THEN LZMA(data.stream, hunkBytes)
    ELSE IF codecID = CodecHuff THEN Huffman(data.stream, hunkBytes)
    ELSE IF codecID = CodecZstd THEN Zstd(data.stream, hunkBytes)
    ELSE IF codecID = CodecCDZlib THEN decompressCDCodec(data, hunkBytes, "zlib")
    ELSE IF codecID = CodecCDLZMA THEN decompressCDCodec(data, hunkBytes, "lzma")
    ELSE IF codecID = CodecCDZstd THEN decompressCDCodec(data, hunkBytes, "zstd")
    ELSE IF codecID \in {CodecFLAC, CodecCDFLAC} THEN Err("FLAC codec not supported")
    ELSE Err("unknown codec")

\* readHunk(hunkNum): the length of the data returned and the cache after the
\* call; the cache maps hunk numbers to the lengths of their buffers
RECURSIVE readHunkLen(_, _, _, _)
readHunkLen(header, map, cache, hunkNum) ==
    LET entry == map[hunkNum + 1]
        stored(len) == [ok |-> TRUE, len |-> len,
                        cache |-> IF Cardinality(DOMAIN cache) < hunkCacheCap
                                  THEN [h \in DOMAIN cache \cup {hunkNum} |->
                                           IF h = hunkNum THEN len ELSE cache[h]]
                                  ELSE cache]
        failed(msg) == [ok |-> FALSE, err |-> msg, cache |-> cache]
    IN
    IF hunkNum \in DOMAIN cache THEN [ok |-> TRUE, len |-> cache[hunkNum], cache |-> cache]
    ELSE IF hunkNum >= Len(map) THEN failed("out of range")
    ELSE IF entry.compression = compressionNone
    THEN IF entry.data.fileShort THEN failed("read uncompressed hunk")
         ELSE stored(header.HunkBytes)
    ELSE IF entry.compression \in compressionType0..compressionType3
    THEN LET d == decompressHunk(entry.data, header.Compressors[entry.compression + 1],
                                 header.HunkBytes)
         IN IF entry.data.fileShort THEN failed("read compressed data")
            ELSE IF ~d.ok THEN failed("decompress hunk")
            ELSE stored(d.len)
    ELSE IF entry.compression = compressionSelf
    THEN IF entry.offset >= hunkNum THEN failed("forward reference")
         ELSE LET r == readHunkLen(header, map, cache, entry.offset) IN
              IF ~r.ok THEN [ok |-> FALSE, err |-> "read self-referenced hunk",
                             cache |-> r.cache]
              ELSE [ok |-> TRUE, len |-> r.len,
                    cache |-> IF Cardinality(DOMAIN r.cache) < hunkCacheCap
                              THEN [h \in DOMAIN r.cache \cup {hunkNum} |->
                                       IF h = hunkNum THEN r.len ELSE r.cache[h]]
                              ELSE r.cache]
    ELSE failed("parent CHD references not supported")

\* hunk sizes: a few bytes, and one CD frame
CodecHunkSizes == {4, cdFrameSize}

CodecSets ==
    { <<CodecZlib, CodecLZMA, CodecHuff, CodecZstd>>,
      <<CodecCDZlib, CodecCDLZMA, CodecCDZstd, CodecFLAC>>,
      <<CodecNone, CodecCDFLAC, "????", CodecZlib>> }

\* the size a stream of the codec is expected to decode to
ExpectedSize(codecID, hunkBytes) ==
    IF codecID \in {CodecCDZlib, CodecCDLZMA, CodecCDZstd}
    THEN (hunkBytes \div cdFrameSize) * cdMaxSectorData
    ELSE hunkBytes

Stream(decoded, end) == [decoded |-> decoded, end |-> end, empty |-> FALSE]
EmptyStream == [decoded |-> 0, end |-> "truncated", empty |-> TRUE]

\* compressed data of a hunk: streams that decode to one byte less than, as
\* much as and one byte more than expected, ending in each way; an empty
\* stream; CD data with a short header and with subcode of each kind
CompressedData(expected) ==
    { [stream |-> Stream(expected + delta, end), framed |-> TRUE, sub |-> EmptyStream,
       fileShort |-> FALSE] :
        delta \in { d \in {-1, 0, 1} : expected + d >= 0 },
        end \in {"eof", "truncated", "corrupt"} }
    \cup
    { [stream |-> EmptyStream, framed |-> TRUE, sub |-> EmptyStream, fileShort |-> FALSE],
      [stream |-> Stream(expected, "eof"), framed |-> FALSE, sub |-> EmptyStream,
       fileShort |-> FALSE],
      [stream |-> Stream(expected, "eof"), framed |-> TRUE,
       sub |-> Stream(cdMaxSubcodeData, "eof"), fileShort |-> FALSE],
      [stream |-> Stream(expected, "eof"), framed |-> TRUE,
       sub |-> Stream(cdMaxSubcodeData - 1, "eof"), fileShort |-> FALSE],
      [stream |-> Stream(expected, "eof"), framed |-> TRUE,
       sub |-> Stream(0, "corrupt"), fileShort |-> FALSE],
      [stream |-> Stream(expected, "eof"), framed |-> TRUE, sub |-> EmptyStream,
       fileShort |-> TRUE] }

CodecEntries(header, hunkNum) ==
    { [compression |-> c, offset |-> 0, data |-> d] :
        c \in compressionType0..compressionType3,
        d \in UNION { CompressedData(ExpectedSize(header.Compressors[k], header.HunkBytes)) :
                        k \in 1..4 } }
    \cup
    { [compression |-> compressionNone, offset |-> 0,
       data |-> [stream |-> EmptyStream, framed |-> TRUE, sub |-> EmptyStream,
                 fileShort |-> short]] : short \in BOOLEAN }
    \cup
    { [compression |-> c, offset |-> o,
       data |-> [stream |-> EmptyStream, framed |-> TRUE, sub |-> EmptyStream,
                 fileShort |-> FALSE]] :
        c \in {compressionSelf, compressionParent}, o \in 0..hunkNum }

InitCodec ==
    /\ cdHeader \in { [HunkBytes |-> h, Compressors |-> cs] :
                         h \in CodecHunkSizes, cs \in CodecSets }
    /\ \E e0 \in CodecEntries(cdHeader, 0) :
         \E e1 \in { e \in CodecEntries(cdHeader, 1) : e.compression > compressionType3 } :
            cdMap = <<e0, e1>>
    /\ cdCache = <<>>
    /\ cdRes = None
    /\ IdleExcept("codec")

CallReadHunkLen ==
    /\ \E hunkNum \in 0..Len(cdMap) :
         LET r == readHunkLen(cdHeader, cdMap, cdCache, hunkNum) IN
         /\ cdRes' = IF r.ok THEN [ok |-> TRUE, hunkNum |-> hunkNum, len |-> r.len]
                     ELSE [ok |-> FALSE, hunkNum |-> hunkNum, err |-> r.err]
         /\ cdCache' = r.cache
    /\ UNCHANGED <<cdHeader, cdMap, notCodecVars>>

NextCodec == CallReadHunkLen

SpecCodec == InitCodec /\ [][NextCodec]_vars

\* C29: every buffer readHunk returns or stores in the hunk cache has exactly
\* HunkBytes bytes, for every compression type and codec; input that decodes
\* to fewer bytes gives an error instead.
C29_HunksHaveHunkBytes ==
    /\ (cdRes # None /\ cdRes.ok) => cdRes.len = cdHeader.HunkBytes
    /\ \A h \in DOMAIN cdCache : cdCache[h] = cdHeader.HunkBytes


\* C30: for every accepted header, HunkBytes = 0 included, Reader.ReadAt ends
\* with a byte count or an error value: no division by zero is reached.
C30_ReadAtNeverPanics == raCall # None => raRes.err # "panic"

\* the same for decodeMapEntries with UnitBytes = 0: it ends with entries or
\* an error value
DecodeMapEntriesNeverPanics ==
    (dmRes # None /\ ~dmRes.ok) => dmRes.err # "panic: integer divide by zero"

====
